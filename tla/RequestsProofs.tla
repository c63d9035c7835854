--------------------------- MODULE RequestsProofs ---------------------------
(***************************************************************************)
(* Theorems about the requests to the server.  First SearchRequests, for   *)
(* every set of projects, queries and concurrent requests, every cache     *)
(* capacity and every index content; then Transports, for every set of     *)
(* connections of any kinds, every number of lines and of results, and     *)
(* with or without a token.                                                *)
(***************************************************************************)
EXTENDS SearchRequests, Transports, FiniteSetTheorems, TLAPS

(* The key of a resolved request is a key of the cache.                     *)
LEMMA KeyType ==
    ASSUME RequestsResolved, NEW r \in Requests, ~At(r, "idle")
    PROVE  Key(r) \in Keys /\ Key(r)[1] = request[r].scope
                           /\ Key(r)[2] = request[r].query
BY DEF RequestsResolved, Key, Keys

LEMMA RequestFields ==
    ASSUME TypeOK, NEW r \in Requests
    PROVE  /\ request[r] \in Request
           /\ request[r].items \in Answers
           /\ request[r].loaded \in Content
BY DEF TypeOK, Request

LEMMA EmptyAnswer == NoItems \in Answers /\ NoItems \notin Items
BY SearchAssumption DEF Answers, Items, NoItems

-----------------------------------------------------------------------------
(* Using a key keeps the ages of the cached keys different.                 *)
LEMMA UseKeepsOrder ==
    ASSUME TypeOK, CacheIsBounded, NEW k \in Keys, Use(k)
    PROVE  /\ age' \in [Keys -> 0..Capacity]
           /\ \A i, j \in Keys :
                i # j /\ age'[i] < Capacity => age'[i] # age'[j]
<1>1. Capacity \in Nat \ {0} /\ age \in [Keys -> 0..Capacity]
  BY SearchAssumption DEF TypeOK
<1>2. \A j \in Keys : age'[j] = IF j = k THEN 0
            ELSE IF age[j] < age[k] THEN age[j] + 1 ELSE age[j]
  BY DEF Use
<1>3. \A i, j \in Keys : i # j /\ age[i] < Capacity => age[i] # age[j]
  BY DEF CacheIsBounded, Cached
<1>4. \A j \in Keys : age[j] \in 0..Capacity
  BY <1>1
<1>5. \A j \in Keys : age'[j] \in 0..Capacity
  BY <1>1, <1>2, <1>4
<1>6. age' \in [Keys -> 0..Capacity]
  BY <1>5 DEF Use
<1>7. \A i, j \in Keys : i # j /\ age'[i] < Capacity => age'[i] # age'[j]
  <2> SUFFICES ASSUME NEW i \in Keys, NEW j \in Keys, i # j,
                      age'[i] < Capacity
               PROVE  age'[i] # age'[j]
    OBVIOUS
  <2>1. CASE i = k
    BY <2>1, <1>1, <1>2, <1>3, <1>4
  <2>2. CASE j = k
    BY <2>2, <1>1, <1>2, <1>3, <1>4
  <2>3. CASE i # k /\ j # k
    BY <2>3, <1>1, <1>2, <1>3, <1>4
  <2> QED  BY <2>1, <2>2, <2>3
<1> QED  BY <1>6, <1>7

(* A hit makes nobody old enough to be evicted.                             *)
LEMMA HitKeepsCache ==
    ASSUME TypeOK, CacheIsBounded, NEW k \in Keys, cache[k] # NoItems, Use(k),
           UNCHANGED cache
    PROVE  age' \in [Keys -> 0..Capacity] /\ CacheIsBounded'
<1>1. Capacity \in Nat \ {0} /\ \A j \in Keys : age[j] \in 0..Capacity
  BY SearchAssumption DEF TypeOK
<1>2. age[k] < Capacity
  BY DEF CacheIsBounded, Cached
<1>3. \A j \in Keys : age'[j] = IF j = k THEN 0
            ELSE IF age[j] < age[k] THEN age[j] + 1 ELSE age[j]
  BY DEF Use
<1>4. \A j \in Keys : age'[j] < Capacity <=> age[j] < Capacity
  BY <1>1, <1>2, <1>3
<1>5. \A j \in Keys : Cached(j)' <=> cache'[j] # NoItems
  BY <1>4 DEF CacheIsBounded, Cached
<1> QED  BY <1>5, UseKeepsOrder DEF CacheIsBounded, Cached

(* A put evicts at most the oldest key, and its items with it.              *)
LEMMA PutKeepsCache ==
    ASSUME TypeOK, CacheIsBounded, NEW k \in Keys, NEW items \in Answers,
           items # NoItems, Put(k, items)
    PROVE  /\ age' \in [Keys -> 0..Capacity]
           /\ cache' \in [Keys -> Answers]
           /\ CacheIsBounded'
<1>1. Capacity \in Nat \ {0} /\ \A j \in Keys : age[j] \in 0..Capacity
  BY SearchAssumption DEF TypeOK
<1>2. /\ age' \in [Keys -> 0..Capacity]
      /\ \A i, j \in Keys : i # j /\ age'[i] < Capacity => age'[i] # age'[j]
  BY UseKeepsOrder DEF Put
<1>3. \A j \in Keys : age'[j] = IF j = k THEN 0
            ELSE IF age[j] < age[k] THEN age[j] + 1 ELSE age[j]
  BY DEF Put, Use
<1>4. \A j \in Keys : cache'[j] = IF j = k THEN items
            ELSE IF age'[j] = Capacity THEN NoItems ELSE cache[j]
  BY DEF Put
<1>5. \A j \in Keys : cache'[j] \in Answers
  BY <1>4, EmptyAnswer DEF TypeOK
<1>6. cache' \in [Keys -> Answers]
  BY <1>5 DEF Put
<1>7. ASSUME NEW j \in Keys PROVE age'[j] < Capacity <=> cache'[j] # NoItems
  <2>1. CASE j = k
    BY <2>1, <1>1, <1>3, <1>4
  <2>2. CASE j # k /\ age'[j] = Capacity
    BY <2>2, <1>1, <1>4
  <2>3. CASE j # k /\ age'[j] # Capacity
    <3>1. age'[j] < Capacity /\ cache'[j] = cache[j]
      BY <2>3, <1>1, <1>2, <1>4
    <3>2. age[j] < Capacity
      BY <2>3, <3>1, <1>1, <1>3
    <3> QED  BY <3>1, <3>2 DEF CacheIsBounded, Cached
  <2> QED  BY <2>1, <2>2, <2>3
<1> QED  BY <1>2, <1>6, <1>7 DEF CacheIsBounded, Cached

-----------------------------------------------------------------------------
(* The invariant *)

LEMMA InvInit == Init => SearchInv
<1> SUFFICES ASSUME Init PROVE SearchInv
  OBVIOUS
<1>1. NoRequest \in Request
  BY EmptyAnswer DEF NoRequest, Request, Phases, Endpoints, Scopes, Content
<1>2. Capacity \in 0..Capacity /\ 0 \in 0..MaxLatencies /\ ~(Capacity < Capacity)
  BY SearchAssumption
<1>3. TypeOK
  BY <1>1, <1>2, EmptyAnswer DEF Init, TypeOK
<1>4. CacheIsBounded
  BY <1>2 DEF Init, CacheIsBounded, Cached
<1>5. /\ AnswersInScope /\ SearchesAreCurrent /\ RequestsResolved
      /\ CacheKeyed /\ LoadedIsSeen
  BY DEF Init, AnswersInScope, SearchesAreCurrent, RequestsResolved,
     CacheKeyed, LoadedIsSeen, At, NoRequest
<1> QED  BY <1>3, <1>4, <1>5 DEF SearchInv

LEMMA ResolveKeepsInv ==
    ASSUME SearchInv, NEW r \in Requests, NEW e \in Endpoints,
           NEW named \in Scopes, NEW q \in Queries,
           ResolveScope(r, e, named, q)
    PROVE  SearchInv'
<1> DEFINE scope == IF named # NoProject THEN named ELSE selected
           new == [NoRequest EXCEPT
                    !.pc = IF e = "sse" THEN "load" ELSE "lookup",
                    !.endpoint = e, !.scope = scope, !.query = q]
<1>1. scope \in Projects
  BY DEF ResolveScope, SearchInv, TypeOK, Scopes
<1>2. /\ request' = [request EXCEPT ![r] = new]
      /\ seen' = [seen EXCEPT ![r] = {index[scope]}]
      /\ UNCHANGED <<index, selected, cache, age, latencies>>
  BY DEF ResolveScope
<1>3. /\ new.pc \in {"load", "lookup"} /\ new.scope = scope /\ new.query = q
      /\ new.items = NoItems /\ new.cached = FALSE /\ new \in Request
  BY <1>1, EmptyAnswer DEF NoRequest, Request, Phases, Scopes, Content
<1>4. index[scope] \in Content
  BY <1>1 DEF SearchInv, TypeOK
<1>5. TypeOK'
  BY <1>2, <1>3, <1>4 DEF SearchInv, TypeOK
<1>6. \A s \in Requests : request'[s] = IF s = r THEN new ELSE request[s]
  BY <1>2 DEF SearchInv, TypeOK
<1>7. /\ \A s \in Requests : s # r => seen'[s] = seen[s]
      /\ seen'[r] = {index[scope]} /\ UNCHANGED index
  BY <1>2 DEF SearchInv, TypeOK
<1> HIDE DEF new, scope
<1>8. CacheIsBounded' /\ CacheKeyed'
  BY <1>2 DEF SearchInv, CacheIsBounded, Cached, CacheKeyed
<1>9. AnswersInScope' /\ SearchesAreCurrent'
  BY <1>3, <1>6, <1>7 DEF SearchInv, AnswersInScope, SearchesAreCurrent
<1>10. RequestsResolved' /\ LoadedIsSeen'
  BY <1>1, <1>3, <1>6, <1>7 DEF SearchInv, RequestsResolved, LoadedIsSeen, At
<1> QED  BY <1>5, <1>8, <1>9, <1>10 DEF SearchInv

(* What a step of a request does to its own record decides the invariants   *)
(* about requests; the other requests keep theirs.                          *)
LEMMA RequestStep ==
    ASSUME SearchInv, NEW r \in Requests, NEW new \in Request,
           request' = [request EXCEPT ![r] = new],
           seen' = [seen EXCEPT ![r] = seen'[r]], seen'[r] \subseteq Content,
           new.items # NoItems => /\ new.items.project = new.scope
                                  /\ new.items.query = new.query
                                  /\ ~new.cached => new.items.content \in seen'[r],
           new.pc # "idle" => new.scope \in Projects /\ new.query \in Queries,
           UNCHANGED index,
           new.pc # "idle" => index[new.scope] \in seen'[r],
           new.pc = "rank" => new.loaded \in seen'[r],
           new.pc = "store" => new.items # NoItems
    PROVE  /\ request' \in [Requests -> Request]
           /\ seen' \in [Requests -> SUBSET Content]
           /\ AnswersInScope' /\ SearchesAreCurrent'
           /\ RequestsResolved' /\ LoadedIsSeen'
<1>1. /\ request' \in [Requests -> Request]
      /\ seen' \in [Requests -> SUBSET Content]
  BY DEF SearchInv, TypeOK
<1>2. \A s \in Requests : /\ request'[s] = IF s = r THEN new ELSE request[s]
                          /\ s # r => seen'[s] = seen[s]
  BY DEF SearchInv, TypeOK
<1>3. AnswersInScope' /\ SearchesAreCurrent'
  BY <1>2 DEF SearchInv, AnswersInScope, SearchesAreCurrent
<1>4. RequestsResolved' /\ LoadedIsSeen'
  BY <1>2 DEF SearchInv, RequestsResolved, LoadedIsSeen, At
<1> QED  BY <1>1, <1>3, <1>4

LEMMA LookupKeepsInv ==
    ASSUME SearchInv, NEW r \in Requests, Lookup(r)
    PROVE  SearchInv'
<1> DEFINE hit == [request[r] EXCEPT !.pc = "record",
                        !.items = cache[Key(r)], !.cached = TRUE]
           miss == [request[r] EXCEPT !.pc = "load"]
<1>1. Key(r) \in Keys /\ Key(r)[1] = request[r].scope
                      /\ Key(r)[2] = request[r].query
  BY KeyType DEF SearchInv, Lookup, At
<1>2. /\ request[r] \in Request /\ request[r].scope \in Projects
      /\ request[r].query \in Queries /\ seen[r] \subseteq Content
      /\ index[request[r].scope] \in seen[r]
      /\ cache[Key(r)] \in Answers /\ request[r].pc = "lookup"
  BY <1>1 DEF SearchInv, TypeOK, RequestsResolved, LoadedIsSeen, Lookup, At
<1>3. /\ UNCHANGED <<index, selected, cache, latencies, seen>>
      /\ seen' = [seen EXCEPT ![r] = seen'[r]]
  BY DEF Lookup, SearchInv, TypeOK
<1>4. CASE cache[Key(r)] # NoItems
  <2>1. Use(Key(r)) /\ request' = [request EXCEPT ![r] = hit]
    BY <1>4 DEF Lookup
  <2>2. age' \in [Keys -> 0..Capacity] /\ CacheIsBounded'
    BY <1>1, <1>3, <1>4, <2>1, HitKeepsCache DEF SearchInv
  <2>3. /\ hit \in Request /\ hit.cached /\ hit.pc = "record"
        /\ hit.scope = request[r].scope /\ hit.query = request[r].query
        /\ hit.items = cache[Key(r)]
    BY <1>2 DEF Request, Phases
  <2>4. hit.items.project = hit.scope /\ hit.items.query = hit.query
    BY <1>1, <1>4, <2>3 DEF SearchInv, CacheKeyed
  <2> HIDE DEF hit
  <2>5. /\ request' \in [Requests -> Request]
        /\ AnswersInScope' /\ SearchesAreCurrent'
        /\ RequestsResolved' /\ LoadedIsSeen'
    BY <1>2, <1>3, <2>1, <2>3, <2>4, RequestStep
  <2> QED  BY <1>3, <2>2, <2>5 DEF SearchInv, TypeOK, CacheKeyed
<1>5. CASE cache[Key(r)] = NoItems
  <2>1. UNCHANGED age /\ request' = [request EXCEPT ![r] = miss]
    BY <1>5 DEF Lookup
  <2>2. /\ miss \in Request /\ miss.pc = "load"
        /\ miss.scope = request[r].scope /\ miss.query = request[r].query
        /\ miss.items = request[r].items /\ miss.cached = request[r].cached
    BY <1>2 DEF Request, Phases
  <2> HIDE DEF miss
  <2>3. /\ request' \in [Requests -> Request]
        /\ AnswersInScope' /\ SearchesAreCurrent'
        /\ RequestsResolved' /\ LoadedIsSeen'
    BY <1>2, <1>3, <2>1, <2>2, RequestStep
       DEF SearchInv, AnswersInScope, SearchesAreCurrent
  <2> QED
    BY <1>3, <2>1, <2>3
       DEF SearchInv, TypeOK, CacheKeyed, CacheIsBounded, Cached
<1> QED  BY <1>4, <1>5

(* Steps of a request that leave the index, the cache and the selection.    *)
LEMMA PlainStep ==
    ASSUME SearchInv, NEW r \in Requests, NEW new \in Request,
           request' = [request EXCEPT ![r] = new],
           new.scope = request[r].scope, new.query = request[r].query,
           new.cached = request[r].cached, request[r].pc # "idle",
           new.items # NoItems =>
             \/ new.items = request[r].items
             \/ /\ new.items.project = new.scope
                /\ new.items.query = new.query
                /\ new.items.content \in seen[r],
           new.pc = "rank" => new.loaded \in seen[r],
           new.pc = "store" => new.items # NoItems,
           latencies' \in 0..MaxLatencies,
           UNCHANGED <<index, selected, cache, age, seen>>
    PROVE  SearchInv'
<1>1. /\ seen' = [seen EXCEPT ![r] = seen'[r]] /\ seen'[r] \subseteq Content
      /\ new.scope \in Projects /\ new.query \in Queries
      /\ index[new.scope] \in seen'[r]
  BY DEF SearchInv, TypeOK, RequestsResolved, LoadedIsSeen, At
<1>2. new.items # NoItems => /\ new.items.project = new.scope
                             /\ new.items.query = new.query
                             /\ ~new.cached => new.items.content \in seen'[r]
  BY DEF SearchInv, AnswersInScope, SearchesAreCurrent
<1>3. /\ request' \in [Requests -> Request]
      /\ AnswersInScope' /\ SearchesAreCurrent'
      /\ RequestsResolved' /\ LoadedIsSeen'
  BY <1>1, <1>2, RequestStep
<1> QED
  BY <1>3 DEF SearchInv, TypeOK, CacheKeyed, CacheIsBounded, Cached

LEMMA LoadKeepsInv ==
    ASSUME SearchInv, NEW r \in Requests, Load(r)
    PROVE  SearchInv'
<1> DEFINE new == [request[r] EXCEPT !.pc = "rank",
                                     !.loaded = index[request[r].scope]]
<1>1. /\ request[r] \in Request /\ request[r].pc = "load"
      /\ index[request[r].scope] \in seen[r]
      /\ request[r].scope \in Projects /\ latencies \in 0..MaxLatencies
      /\ index[request[r].scope] \in Content
  BY DEF SearchInv, TypeOK, RequestsResolved, LoadedIsSeen, Load, At
<1>2. /\ request' = [request EXCEPT ![r] = new]
      /\ UNCHANGED <<index, selected, cache, age, latencies, seen>>
  BY DEF Load
<1>3. /\ new \in Request /\ new.pc = "rank" /\ new.scope = request[r].scope
      /\ new.query = request[r].query /\ new.cached = request[r].cached
      /\ new.items = request[r].items
      /\ new.loaded = index[request[r].scope]
  BY <1>1 DEF Request, Phases
<1> HIDE DEF new
<1> QED  BY <1>1, <1>2, <1>3, PlainStep

LEMMA RankKeepsInv ==
    ASSUME SearchInv, NEW r \in Requests, Rank(r)
    PROVE  SearchInv'
<1>1. PICK items \in Found(r) :
        request' = [request EXCEPT ![r].items = items,
            ![r].pc = IF request[r].endpoint = "sse" THEN "record"
                      ELSE IF items = NoItems THEN "answered" ELSE "store"]
  BY DEF Rank
<1> DEFINE new == [request[r] EXCEPT !.items = items,
        !.pc = IF request[r].endpoint = "sse" THEN "record"
               ELSE IF items = NoItems THEN "answered" ELSE "store"]
<1>2. /\ request[r] \in Request /\ request[r].pc = "rank"
      /\ request[r].scope \in Projects /\ request[r].query \in Queries
      /\ request[r].loaded \in seen[r] /\ latencies \in 0..MaxLatencies
  BY DEF SearchInv, TypeOK, RequestsResolved, LoadedIsSeen, Rank, At
<1>3. items # NoItems =>
        /\ items \in Items /\ items.project = request[r].scope
        /\ items.query = request[r].query
        /\ items.content = request[r].loaded
  BY <1>2, SearchAssumption DEF Found, Items
<1>4. items \in Answers
  BY <1>3 DEF Answers
<1>5. /\ request' = [request EXCEPT ![r] = new]
      /\ UNCHANGED <<index, selected, cache, age, latencies, seen>>
  BY <1>1 DEF Rank
<1>6. /\ new \in Request /\ new.pc \in {"record", "answered", "store"}
      /\ new.scope = request[r].scope /\ new.query = request[r].query
      /\ new.cached = request[r].cached /\ new.items = items
      /\ new.pc = "store" => items # NoItems
  BY <1>2, <1>4 DEF Request, Phases
<1> HIDE DEF new
<1> QED  BY <1>2, <1>3, <1>5, <1>6, PlainStep

LEMMA RecordKeepsInv ==
    ASSUME SearchInv, NEW r \in Requests, Record(r)
    PROVE  SearchInv'
<1> DEFINE new == [request[r] EXCEPT !.pc = "answered"]
<1>1. request[r] \in Request /\ request[r].pc = "record"
  BY DEF SearchInv, TypeOK, Record, At
<1>2. latencies' \in 0..MaxLatencies
  BY SearchAssumption DEF SearchInv, TypeOK, Record
<1>3. /\ request' = [request EXCEPT ![r] = new]
      /\ UNCHANGED <<index, selected, cache, age, seen>>
  BY DEF Record
<1>4. /\ new \in Request /\ new.pc = "answered"
      /\ new.scope = request[r].scope /\ new.query = request[r].query
      /\ new.cached = request[r].cached /\ new.items = request[r].items
  BY <1>1 DEF Request, Phases
<1> HIDE DEF new
<1> QED  BY <1>1, <1>2, <1>3, <1>4, PlainStep

LEMMA StoreKeepsInv ==
    ASSUME SearchInv, NEW r \in Requests, Store(r)
    PROVE  SearchInv'
<1> DEFINE new == [request[r] EXCEPT !.pc = "record"]
<1>1. Key(r) \in Keys /\ Key(r)[1] = request[r].scope
                      /\ Key(r)[2] = request[r].query
  BY KeyType DEF SearchInv, Store, At
<1>2. /\ request[r] \in Request /\ request[r].pc = "store"
      /\ request[r].scope \in Projects /\ request[r].query \in Queries
      /\ request[r].items \in Answers /\ request[r].items # NoItems
      /\ index[request[r].scope] \in seen[r] /\ seen[r] \subseteq Content
  BY RequestFields
     DEF SearchInv, TypeOK, RequestsResolved, LoadedIsSeen, Store, At
<1>3. /\ request' = [request EXCEPT ![r] = new]
      /\ Put(Key(r), request[r].items)
      /\ UNCHANGED <<index, selected, latencies, seen>>
  BY DEF Store
<1>4. /\ age' \in [Keys -> 0..Capacity] /\ cache' \in [Keys -> Answers]
      /\ CacheIsBounded'
  BY <1>1, <1>2, <1>3, PutKeepsCache DEF SearchInv
<1>5. CacheKeyed'
  <2> SUFFICES ASSUME NEW k \in Keys, cache'[k] # NoItems
               PROVE  cache'[k].project = k[1] /\ cache'[k].query = k[2]
    BY DEF CacheKeyed
  <2>1. cache'[k] = IF k = Key(r) THEN request[r].items ELSE cache[k]
    BY <1>3 DEF Put
  <2>2. /\ request[r].items.project = request[r].scope
        /\ request[r].items.query = request[r].query
    BY <1>2 DEF SearchInv, AnswersInScope
  <2> QED  BY <1>1, <2>1, <2>2 DEF SearchInv, CacheKeyed
<1>6. /\ new \in Request /\ new.pc = "record"
      /\ new.scope = request[r].scope /\ new.query = request[r].query
      /\ new.cached = request[r].cached /\ new.items = request[r].items
  BY <1>2 DEF Request, Phases
<1> HIDE DEF new
<1>7. /\ request' \in [Requests -> Request]
      /\ AnswersInScope' /\ SearchesAreCurrent'
      /\ RequestsResolved' /\ LoadedIsSeen'
  <2>1. seen' = [seen EXCEPT ![r] = seen'[r]] /\ seen'[r] = seen[r]
    BY <1>3 DEF SearchInv, TypeOK
  <2>2. /\ new.items.project = new.scope /\ new.items.query = new.query
        /\ ~new.cached => new.items.content \in seen'[r]
    BY <1>2, <1>6, <2>1 DEF SearchInv, AnswersInScope, SearchesAreCurrent
  <2> QED  BY <1>2, <1>3, <1>6, <2>1, <2>2, RequestStep
<1> QED  BY <1>3, <1>4, <1>5, <1>7 DEF SearchInv, TypeOK

LEMMA FinishKeepsInv ==
    ASSUME SearchInv, NEW r \in Requests, Finish(r)
    PROVE  SearchInv'
<1>1. /\ NoRequest \in Request /\ NoRequest.pc = "idle"
      /\ NoRequest.items = NoItems
  BY EmptyAnswer DEF NoRequest, Request, Phases, Endpoints, Scopes, Content
<1>2. /\ request' = [request EXCEPT ![r] = NoRequest]
      /\ seen' = [seen EXCEPT ![r] = {}]
      /\ UNCHANGED <<index, selected, cache, age, latencies>>
  BY DEF Finish
<1>3. seen'[r] = {}
  BY <1>2 DEF SearchInv, TypeOK
<1>4. /\ request' \in [Requests -> Request]
      /\ seen' \in [Requests -> SUBSET Content]
      /\ AnswersInScope' /\ SearchesAreCurrent'
      /\ RequestsResolved' /\ LoadedIsSeen'
  BY <1>1, <1>2, <1>3, RequestStep
<1> QED
  BY <1>2, <1>4 DEF SearchInv, TypeOK, CacheKeyed, CacheIsBounded, Cached

(* A change of the index only adds to what the requests have seen.          *)
LEMMA IndexChangeKeepsInv ==
    ASSUME SearchInv, NEW p \in Projects, IndexChanges(p)
    PROVE  SearchInv'
<1>1. PICK c \in Content :
        /\ index' = [index EXCEPT ![p] = c]
        /\ seen' = [r \in Requests |->
                IF request[r].scope = p THEN seen[r] \union {c} ELSE seen[r]]
  BY DEF IndexChanges
<1>2. UNCHANGED <<selected, cache, age, request, latencies>>
  BY DEF IndexChanges
<1>3. \A r \in Requests : /\ seen[r] \subseteq seen'[r]
                          /\ request[r].scope = p => c \in seen'[r]
  BY <1>1
<1>4. TypeOK'
  BY <1>1, <1>2 DEF SearchInv, TypeOK
<1>5. CacheIsBounded' /\ AnswersInScope' /\ RequestsResolved' /\ CacheKeyed'
  BY <1>2 DEF SearchInv, CacheIsBounded, Cached, AnswersInScope,
              RequestsResolved, CacheKeyed, At
<1>6. SearchesAreCurrent'
  BY <1>2, <1>3 DEF SearchInv, SearchesAreCurrent
<1>7. \A q \in Projects : index'[q] = IF q = p THEN c ELSE index[q]
  BY <1>1 DEF SearchInv, TypeOK
<1>8. LoadedIsSeen'
  BY <1>2, <1>3, <1>7 DEF SearchInv, LoadedIsSeen, RequestsResolved, At
<1> QED  BY <1>4, <1>5, <1>6, <1>8 DEF SearchInv

LEMMA InvNext == SearchInv /\ [Next]_vars => SearchInv'
<1> SUFFICES ASSUME SearchInv, [Next]_vars PROVE SearchInv'
  OBVIOUS
<1>1. CASE \E r \in Requests, e \in Endpoints, named \in Scopes,
              q \in Queries : ResolveScope(r, e, named, q)
  BY <1>1, ResolveKeepsInv
<1>2. CASE \E r \in Requests : Serve(r)
  BY <1>2, LookupKeepsInv, LoadKeepsInv, RankKeepsInv, StoreKeepsInv,
     RecordKeepsInv, FinishKeepsInv DEF Serve
<1>3. CASE \E p \in Projects : IndexChanges(p)
  BY <1>3, IndexChangeKeepsInv
<1>4. CASE SelectionChanges
  BY <1>4 DEF SelectionChanges, SearchInv, TypeOK, CacheIsBounded, Cached,
     AnswersInScope, SearchesAreCurrent, RequestsResolved, CacheKeyed,
     LoadedIsSeen, At
<1>5. CASE UNCHANGED vars
  BY <1>5 DEF vars, SearchInv, TypeOK, CacheIsBounded, Cached,
     AnswersInScope, SearchesAreCurrent, RequestsResolved, CacheKeyed,
     LoadedIsSeen, At
<1> QED  BY <1>1, <1>2, <1>3, <1>4, <1>5 DEF Next

-----------------------------------------------------------------------------
(* The theorems *)

(* Every reachable state of the searches satisfies the inductive invariant. *)
THEOREM SearchInvariant == Spec => []SearchInv
<1>1. Init => SearchInv
  BY InvInit
<1>2. SearchInv /\ [Next]_vars => SearchInv'
  BY InvNext
<1> QED  BY <1>1, <1>2, PTL DEF Spec

(* The latencies never exceed their limit and all variables keep their types. *)
THEOREM TypeCorrect == Spec => []TypeOK
<1>1. SearchInv => TypeOK
  BY DEF SearchInv
<1> QED  BY <1>1, SearchInvariant, PTL

(* The query cache never holds more keys than its capacity, nor one twice,  *)
(* however requests of the same key interleave.                             *)
THEOREM CacheStaysBounded == Spec => []CacheIsBounded
<1>1. SearchInv => CacheIsBounded
  BY DEF SearchInv
<1> QED  BY <1>1, SearchInvariant, PTL

(* A search answers for the one project and the query it was resolved to.   *)
THEOREM AnswersStayInScope == Spec => []AnswersInScope
<1>1. SearchInv => AnswersInScope
  BY DEF SearchInv
<1> QED  BY <1>1, SearchInvariant, PTL

(* What a search finds without the cache is of an index it could see.       *)
THEOREM UncachedAnswersCurrent == Spec => []SearchesAreCurrent
<1>1. SearchInv => SearchesAreCurrent
  BY DEF SearchInv
<1> QED  BY <1>1, SearchInvariant, PTL

-----------------------------------------------------------------------------
(* The transports *)

(* No outcome of a request is a kind that no answer has.                   *)
LEMMA OutcomesAreKinds ==
    ASSUME NEW what \in AllLines, NEW kind \in Outcomes(what)
    PROVE  kind \in {"result", "toolError", "invalidParams", "methodNotFound",
                     "indexUnavailable", "timeout", "internal"}
BY DEF Outcomes, ToolOutcomes, AllLines

(* The line at hand is one that was sent.                                  *)
LEMMA AtLineType ==
    ASSUME TransportsTypeOK, NEW c \in Conns, taken[c] < Len(sent[c])
    PROVE  /\ Id(c) \in 1..MaxLines
           /\ Id(c) = taken[c] + 1
           /\ Id(c) \in 1..Len(sent[c])
           /\ taken[c] + 1 \in 0..MaxLines
           /\ AtLine(c) \in Line
           /\ AtLine(c) = sent[c][Id(c)]
           /\ AtLine(c).what \in AllLines
<1>1. sent[c] \in Seq(Line) /\ taken[c] \in 0..MaxLines /\ Len(sent[c]) \in Nat
      /\ Len(sent[c]) <= MaxLines /\ MaxLines \in Nat
  BY TransportsAssumption DEF TransportsTypeOK
<1>2. taken[c] + 1 \in 1..Len(sent[c]) /\ taken[c] + 1 \in 1..MaxLines
      /\ taken[c] + 1 \in 0..MaxLines
  BY <1>1
<1>3. sent[c][taken[c] + 1] \in Line
  BY <1>1, <1>2
<1> QED  BY <1>2, <1>3, TransportsAssumption DEF Id, AtLine, Line

(* What a reply does, whatever it says.                                    *)
LEMMA ReplyKeepsTypes ==
    ASSUME TransportsTypeOK, NEW c \in Conns, taken[c] < Len(sent[c]),
           NEW id \in 0..MaxLines,
           NEW kind \in {"text", "result", "toolError", "invalidParams", "methodNotFound",
                         "indexUnavailable", "timeout", "internal"},
           Reply(c, id, kind)
    PROVE  /\ taken' \in [Conns -> 0..MaxLines]
           /\ answers' \in [Conns -> Seq(Answer)]
           /\ pc' \in [Conns -> {"idle", "search", "record", "closed", "panicked"}]
           /\ taken'[c] = taken[c] + 1
           /\ pc'[c] \in {"idle", "closed"}
           /\ \A d \in Conns \ {c} : taken'[d] = taken[d] /\ answers'[d] = answers[d]
                                     /\ pc'[d] = pc[d]
           /\ left[c] = "gone" => answers'[c] = answers[c]
           /\ left[c] # "gone" => /\ answers'[c] = Append(answers[c], [id |-> id, kind |-> kind])
                                  /\ pc'[c] = "idle"
<1>1. taken[c] + 1 \in 0..MaxLines
  BY AtLineType
<1>2. [id |-> id, kind |-> kind] \in Answer
  BY DEF Answer
<1>3. answers \in [Conns -> Seq(Answer)] /\ taken \in [Conns -> 0..MaxLines]
      /\ pc \in [Conns -> {"idle", "search", "record", "closed", "panicked"}]
  BY DEF TransportsTypeOK
<1>4. Append(answers[c], [id |-> id, kind |-> kind]) \in Seq(Answer)
  BY <1>2, <1>3
<1>5. taken' \in [Conns -> 0..MaxLines] /\ taken'[c] = taken[c] + 1
      /\ \A d \in Conns \ {c} : taken'[d] = taken[d]
  BY <1>1, <1>3 DEF Reply
<1>6. /\ answers' \in [Conns -> Seq(Answer)]
      /\ \A d \in Conns \ {c} : answers'[d] = answers[d]
      /\ left[c] = "gone" => answers'[c] = answers[c]
      /\ left[c] # "gone" => answers'[c] = Append(answers[c], [id |-> id, kind |-> kind])
  BY <1>3, <1>4 DEF Reply
<1>7. /\ pc' \in [Conns -> {"idle", "search", "record", "closed", "panicked"}]
      /\ pc'[c] \in {"idle", "closed"}
      /\ left[c] # "gone" => pc'[c] = "idle"
      /\ \A d \in Conns \ {c} : pc'[d] = pc[d]
  BY <1>3 DEF Reply
<1> QED  BY <1>5, <1>6, <1>7

-----------------------------------------------------------------------------
(* A line that is sent changes none that was sent before.                  *)
LEMMA SendKeepsTypes ==
    ASSUME TransportsTypeOK, NEW c \in Conns, Send(c)
    PROVE  /\ TransportsTypeOK'
           /\ \A d \in Conns : /\ Len(sent[d]) <= Len(sent'[d])
                               /\ \A n \in 1..Len(sent[d]) : sent'[d][n] = sent[d][n]
<1> PICK line \in Line : sent' = [sent EXCEPT ![c] = Append(@, line)]
  BY DEF Send
<1>1. sent \in [Conns -> Seq(Line)] /\ Len(sent[c]) < MaxLines
  BY DEF Send, TransportsTypeOK
<1>2. sent' \in [Conns -> Seq(Line)] /\ sent'[c] = Append(sent[c], line)
      /\ \A d \in Conns \ {c} : sent'[d] = sent[d]
  BY <1>1
<1>3. /\ Len(sent'[c]) = Len(sent[c]) + 1
      /\ \A n \in 1..Len(sent[c]) : sent'[c][n] = sent[c][n]
  BY <1>1, <1>2
<1>4. \A d \in Conns : /\ Len(sent[d]) <= Len(sent'[d])
                       /\ Len(sent[d]) \in Nat /\ Len(sent'[d]) \in Nat
                       /\ \A n \in 1..Len(sent[d]) : sent'[d][n] = sent[d][n]
  BY <1>1, <1>2, <1>3
<1>5. UNCHANGED <<taken, answers, pc, left, recorded, streamPc, found, told>>
  BY DEF Send, streamVars
<1>6. \A d \in Conns : taken[d] <= Len(sent'[d]) /\ Len(sent'[d]) <= MaxLines
  BY <1>1, <1>2, <1>3, <1>4, TransportsAssumption DEF TransportsTypeOK
<1>7. ASSUME NEW d \in Conns, pc[d] \in {"search", "record"}
      PROVE  /\ taken[d] < Len(sent'[d])
             /\ sent'[d][taken[d] + 1].what \in Searching
             /\ Authorized(d, sent'[d][taken[d] + 1])
  <2>1. taken[d] < Len(sent[d]) /\ sent[d][taken[d] + 1].what \in Searching
        /\ Authorized(d, sent[d][taken[d] + 1])
    BY <1>7 DEF TransportsTypeOK
  <2>2. taken[d] + 1 \in 1..Len(sent[d])
    BY <2>1, <1>4 DEF TransportsTypeOK
  <2> QED  BY <2>1, <2>2, <1>4 DEF TransportsTypeOK
<1> QED  BY <1>2, <1>4, <1>5, <1>6, <1>7 DEF TransportsTypeOK, Authorized

(* So does a step of one connection that takes at most one line.           *)
LEMMA ConnTypes ==
    ASSUME TransportsTypeOK, UNCHANGED <<sent, left, streamVars>>,
           recorded' \subseteq (Conns \X (1..MaxLines)) \cup (Streams \X {0}), NEW c \in Conns,
           taken[c] < Len(sent[c]),
           taken' \in [Conns -> 0..MaxLines],
           answers' \in [Conns -> Seq(Answer)],
           pc' \in [Conns -> {"idle", "search", "record", "closed", "panicked"}],
           taken'[c] \in {taken[c], taken[c] + 1},
           \A d \in Conns \ {c} : taken'[d] = taken[d] /\ pc'[d] = pc[d],
           pc'[c] \in {"search", "record"} =>
                /\ taken'[c] = taken[c]
                /\ AtLine(c).what \in Searching /\ Authorized(c, AtLine(c))
    PROVE  TransportsTypeOK'
<1>1. ASSUME NEW d \in Conns
      PROVE  /\ taken'[d] <= Len(sent'[d]) /\ Len(sent'[d]) <= MaxLines
             /\ pc'[d] \in {"search", "record"} =>
                  /\ taken'[d] < Len(sent'[d])
                  /\ sent'[d][taken'[d] + 1].what \in Searching
                  /\ Authorized(d, sent'[d][taken'[d] + 1])
  <2>1. taken[d] \in Nat /\ Len(sent[d]) \in Nat
    BY DEF TransportsTypeOK
  <2>2. CASE d = c
    BY <2>1, <2>2 DEF TransportsTypeOK, AtLine, Id
  <2>3. CASE d # c
    BY <2>1, <2>3 DEF TransportsTypeOK
  <2> QED  BY <2>2, <2>3
<1> QED  BY <1>1 DEF TransportsTypeOK, streamVars, Authorized
(* A reply keeps the types.                                                *)
LEMMA ReplyTypes ==
    ASSUME TransportsTypeOK, UNCHANGED <<sent, left, streamVars>>,
           recorded' \subseteq (Conns \X (1..MaxLines)) \cup (Streams \X {0}), NEW c \in Conns,
           taken[c] < Len(sent[c]), NEW id \in 0..MaxLines,
           NEW kind \in {"text", "result", "toolError", "invalidParams", "methodNotFound",
                         "indexUnavailable", "timeout", "internal"},
           Reply(c, id, kind)
    PROVE  TransportsTypeOK'
<1>1. /\ taken' \in [Conns -> 0..MaxLines]
      /\ answers' \in [Conns -> Seq(Answer)]
      /\ pc' \in [Conns -> {"idle", "search", "record", "closed", "panicked"}]
      /\ taken'[c] = taken[c] + 1
      /\ pc'[c] \in {"idle", "closed"}
      /\ \A d \in Conns \ {c} : taken'[d] = taken[d] /\ pc'[d] = pc[d]
  BY ReplyKeepsTypes
<1>2. taken'[c] \in {taken[c], taken[c] + 1} /\ pc'[c] \notin {"search", "record"}
  BY <1>1
<1> QED  BY <1>1, <1>2, ConnTypes

(* Every step keeps the types.                                             *)
LEMMA TransportsTypesStep == TransportsTypeOK /\ [TransportsNext]_transportVars => TransportsTypeOK'
<1> SUFFICES ASSUME TransportsTypeOK, [TransportsNext]_transportVars PROVE TransportsTypeOK'
  OBVIOUS
<1> USE DEF TransportsTypeOK, connVars, streamVars
<1>1. ASSUME NEW c \in Conns, Send(c) PROVE TransportsTypeOK'
  BY <1>1, SendKeepsTypes
<1>2. ASSUME NEW c \in Conns, EndOfInput(c) PROVE TransportsTypeOK'
  BY <1>2 DEF EndOfInput
<1>3. ASSUME NEW c \in Conns, Disconnect(c) PROVE TransportsTypeOK'
  BY <1>3 DEF Disconnect
<1>4. ASSUME NEW c \in Conns, Pass(c) PROVE TransportsTypeOK'
  BY <1>4, AtLineType, ConnTypes DEF Pass
<1>5. ASSUME NEW c \in Conns, Refuse(c) PROVE TransportsTypeOK'
  <2>1. Reply(c, 0, "text") /\ taken[c] < Len(sent[c])
        /\ UNCHANGED <<sent, left, recorded, streamVars>>
    BY <1>5 DEF Refuse
  <2>2. 0 \in 0..MaxLines
    BY TransportsAssumption
  <2>3. recorded' \subseteq (Conns \X (1..MaxLines)) \cup (Streams \X {0})
    BY <2>1
  <2> HIDE DEF TransportsTypeOK, streamVars
  <2> QED  BY <2>1, <2>2, <2>3, ReplyTypes
<1>6. ASSUME NEW c \in Conns, AnswerAtOnce(c) PROVE TransportsTypeOK'
  <2>1. PICK kind \in Outcomes(AtLine(c).what) : Reply(c, Id(c), kind)
    BY <1>6 DEF AnswerAtOnce
  <2>2. taken[c] < Len(sent[c]) /\ UNCHANGED <<sent, left, recorded, streamVars>>
    BY <1>6 DEF AnswerAtOnce
  <2>3. Id(c) \in 0..MaxLines /\ AtLine(c).what \in AllLines
    BY <2>2, AtLineType
  <2>4. kind \in {"text", "result", "toolError", "invalidParams", "methodNotFound",
                  "indexUnavailable", "timeout", "internal"}
    BY <2>3, OutcomesAreKinds
  <2>5. recorded' \subseteq (Conns \X (1..MaxLines)) \cup (Streams \X {0})
    BY <2>2
  <2> HIDE DEF TransportsTypeOK, streamVars
  <2> QED  BY <2>1, <2>2, <2>3, <2>4, <2>5, ReplyTypes
<1>7. ASSUME NEW c \in Conns, StartSearch(c) PROVE TransportsTypeOK'
  BY <1>7 DEF StartSearch, Served, AtLine, Id
<1>8. ASSUME NEW c \in Conns, SearchFinds(c) PROVE TransportsTypeOK'
  BY <1>8 DEF SearchFinds
<1>9. ASSUME NEW c \in Conns, SearchFails(c) PROVE TransportsTypeOK'
  <2>1. PICK kind \in Outcomes(AtLine(c).what) : Reply(c, Id(c), kind)
    BY <1>9 DEF SearchFails
  <2>2. taken[c] < Len(sent[c]) /\ UNCHANGED <<sent, left, recorded, streamVars>>
    BY <1>9 DEF SearchFails
  <2>3. Id(c) \in 0..MaxLines /\ AtLine(c).what \in AllLines
    BY <2>2, AtLineType
  <2>4. kind \in {"text", "result", "toolError", "invalidParams", "methodNotFound",
                  "indexUnavailable", "timeout", "internal"}
    BY <2>3, OutcomesAreKinds
  <2>5. recorded' \subseteq (Conns \X (1..MaxLines)) \cup (Streams \X {0})
    BY <2>2
  <2> HIDE DEF TransportsTypeOK, streamVars
  <2> QED  BY <2>1, <2>2, <2>3, <2>4, <2>5, ReplyTypes
<1>10. ASSUME NEW c \in Conns, RecordLatency(c) PROVE TransportsTypeOK'
  <2>1. /\ taken[c] < Len(sent[c]) /\ UNCHANGED <<sent, left, streamVars>>
        /\ Reply(c, Id(c), "result") /\ recorded' = recorded \cup {<<c, Id(c)>>}
    BY <1>10 DEF RecordLatency
  <2>2. Id(c) \in 1..MaxLines /\ Id(c) \in 0..MaxLines
    BY <2>1, AtLineType
  <2>3. recorded' \subseteq (Conns \X (1..MaxLines)) \cup (Streams \X {0})
    BY <2>1, <2>2
  <2> HIDE DEF TransportsTypeOK, streamVars
  <2> QED  BY <2>1, <2>2, <2>3, ReplyTypes
<1>11. ASSUME NEW c \in Conns, SearchPanics(c) PROVE TransportsTypeOK'
  BY <1>11 DEF SearchPanics
<1>12. ASSUME NEW c \in Conns, Break(c) PROVE TransportsTypeOK'
  BY <1>12 DEF Break
<1>13. ASSUME NEW c \in Conns, Close(c) PROVE TransportsTypeOK'
  BY <1>13 DEF Close
<1>14. ASSUME NEW s \in Streams, StreamRefused(s) PROVE TransportsTypeOK'
  BY <1>14 DEF StreamRefused, Event
<1>15. ASSUME NEW s \in Streams, StreamStarts(s) PROVE TransportsTypeOK'
  BY <1>15 DEF StreamStarts
<1>16. ASSUME NEW s \in Streams, StreamSearched(s) PROVE TransportsTypeOK'
  <2>1. PICK n \in 0..MaxItems :
         IF n = 0 THEN /\ told' = [told EXCEPT ![s] = <<Error>>]
                       /\ streamPc' = [streamPc EXCEPT ![s] = "closed"]
                       /\ UNCHANGED found
                  ELSE /\ found' = [found EXCEPT ![s] = n]
                       /\ streamPc' = [streamPc EXCEPT ![s] = "tell"]
                       /\ UNCHANGED told
    BY <1>16 DEF StreamSearched
  <2>2. recorded' \subseteq (Conns \X (1..MaxLines)) \cup (Streams \X {0})
    BY <1>16 DEF StreamSearched
  <2>3. <<Error>> \in Seq(Event)
    BY DEF Event
  <2> QED  BY <1>16, <2>1, <2>2, <2>3 DEF StreamSearched
<1>17. ASSUME NEW s \in Streams, StreamTells(s) PROVE TransportsTypeOK'
  <2>1. told[s] \in Seq(Event) /\ Len(told[s]) < found[s] /\ found[s] \in 0..MaxItems
        /\ MaxItems \in Nat /\ Len(told[s]) \in Nat
    BY <1>17, TransportsAssumption DEF StreamTells
  <2>2. Len(told[s]) + 1 \in 1..MaxItems
    BY <2>1
  <2>3. <<"result", Len(told[s]) + 1>> \in Event
    BY <2>2 DEF Event
  <2>4. Append(told[s], <<"result", Len(told[s]) + 1>>) \in Seq(Event)
    BY <2>1, <2>3
  <2> QED  BY <1>17, <2>4 DEF StreamTells
<1>18. ASSUME NEW s \in Streams, StreamDone(s) PROVE TransportsTypeOK'
  <2>1. Append(told[s], Done) \in Seq(Event)
    BY DEF Event
  <2> QED  BY <1>18, <2>1 DEF StreamDone
<1>19. ASSUME NEW s \in Streams, StreamLost(s) PROVE TransportsTypeOK'
  BY <1>19 DEF StreamLost
<1>20. CASE UNCHANGED transportVars
  BY <1>20 DEF transportVars
<1> HIDE DEF TransportsTypeOK, connVars, streamVars
<1> QED
  BY <1>1, <1>2, <1>3, <1>4, <1>5, <1>6, <1>7, <1>8, <1>9, <1>10, <1>11, <1>12, <1>13,
     <1>14, <1>15, <1>16, <1>17, <1>18, <1>19, <1>20 DEF TransportsNext

-----------------------------------------------------------------------------
(* How many answers are due: one more at each line that calls for one.     *)
LEMMA DueIsFinite ==
    ASSUME NEW c \in Conns, NEW n \in Nat
    PROVE  IsFiniteSet({m \in 1..n : IsDue(c, m)})
<1>1. IsFiniteSet(1..n)
  BY FS_Interval
<1>2. {m \in 1..n : IsDue(c, m)} \subseteq 1..n
  OBVIOUS
<1> QED  BY <1>1, <1>2, FS_Subset

LEMMA DueUpToType ==
    ASSUME NEW c \in Conns, NEW n \in Nat
    PROVE  DueUpTo(c, n) \in Nat
BY DueIsFinite, FS_CardinalityType DEF DueUpTo

LEMMA DueUpToNext ==
    ASSUME NEW c \in Conns, NEW n \in Nat
    PROVE  DueUpTo(c, n + 1) = IF IsDue(c, n + 1) THEN DueUpTo(c, n) + 1 ELSE DueUpTo(c, n)
<1>0. DueUpTo(c, n) \in Nat /\ IsFiniteSet({m \in 1..n : IsDue(c, m)})
  BY DueUpToType, DueIsFinite
<1>1. CASE IsDue(c, n + 1)
  <2>1. {m \in 1..(n + 1) : IsDue(c, m)} = {m \in 1..n : IsDue(c, m)} \cup {n + 1}
    BY <1>1
  <2>2. n + 1 \notin {m \in 1..n : IsDue(c, m)}
    OBVIOUS
  <2>3. Cardinality({m \in 1..n : IsDue(c, m)} \cup {n + 1})
            = Cardinality({m \in 1..n : IsDue(c, m)}) + 1
    BY <1>0, <2>2, FS_AddElement
  <2> QED  BY <1>1, <2>1, <2>3 DEF DueUpTo
<1>2. CASE ~IsDue(c, n + 1)
  <2>1. {m \in 1..(n + 1) : IsDue(c, m)} = {m \in 1..n : IsDue(c, m)}
    BY <1>2
  <2> QED  BY <1>2, <2>1 DEF DueUpTo
<1> QED  BY <1>1, <1>2

LEMMA DueUpToGrows ==
    ASSUME NEW c \in Conns, NEW k \in Nat, NEW n \in 1..k, IsDue(c, n)
    PROVE  DueUpTo(c, n) \in 1..DueUpTo(c, k)
<1>1. DueUpTo(c, n) <= DueUpTo(c, k)
  <2>1. {m \in 1..n : IsDue(c, m)} \subseteq {m \in 1..k : IsDue(c, m)}
    OBVIOUS
  <2>2. IsFiniteSet({m \in 1..k : IsDue(c, m)})
    BY DueIsFinite
  <2>3. Cardinality({m \in 1..n : IsDue(c, m)}) <= Cardinality({m \in 1..k : IsDue(c, m)})
    BY <2>1, <2>2, FS_Subset
  <2> QED  BY <2>3 DEF DueUpTo
<1>2. DueUpTo(c, n) # 0
  <2>1. n \in {m \in 1..n : IsDue(c, m)}
    OBVIOUS
  <2>2. IsFiniteSet({m \in 1..n : IsDue(c, m)})
    BY DueIsFinite
  <2> QED  BY <2>1, <2>2, FS_EmptySet DEF DueUpTo
<1>3. DueUpTo(c, n) \in Nat /\ DueUpTo(c, k) \in Nat
  <2>1. n \in Nat
    OBVIOUS
  <2> QED  BY <2>1, DueUpToType
<1> QED  BY <1>1, <1>2, <1>3

LEMMA DueUpToKept ==
    ASSUME NEW c \in Conns, NEW n \in Nat, \A m \in 1..n : sent'[c][m] = sent[c][m]
    PROVE  DueUpTo(c, n)' = DueUpTo(c, n)
<1>1. {m \in 1..n : IsDue(c, m)}' = {m \in 1..n : IsDue(c, m)}
  BY DEF IsDue
<1> QED  BY <1>1 DEF DueUpTo

(* A step that does not move the connection keeps its answers.             *)
LEMMA AnswersKept ==
    ASSUME TransportsTypeOK, NEW c \in Conns, AnswersFit(c),
           taken'[c] = taken[c], answers'[c] = answers[c],
           left'[c] # "gone" => left[c] # "gone",
           \A n \in 1..taken[c] : sent'[c][n] = sent[c][n],
           \A n \in 1..taken[c] : <<c, n>> \in recorded' <=> <<c, n>> \in recorded
    PROVE  AnswersFit(c)'
<1>1. taken[c] \in Nat /\ taken[c] \in 0..MaxLines /\ MaxLines \in Nat
  BY TransportsAssumption DEF TransportsTypeOK
<1>2. \A n \in 0..taken[c] : DueUpTo(c, n)' = DueUpTo(c, n)
  <2> TAKE n \in 0..taken[c]
  <2>1. n \in Nat /\ \A m \in 1..n : sent'[c][m] = sent[c][m]
    BY <1>1
  <2> QED  BY <2>1, DueUpToKept
<1>3. DueUpTo(c, taken[c])' = DueUpTo(c, taken[c])
  BY <1>1, <1>2
<1>4. ASSUME NEW n \in 1..taken'[c], IsDue(c, n)', DueUpTo(c, n)' <= Len(answers'[c])
      PROVE  Fits(c, n, answers[c][DueUpTo(c, n)])'
  <2>1. n \in 1..taken[c] /\ n \in 0..taken[c] /\ n \in 1..MaxLines
    BY <1>1
  <2>2. IsDue(c, n) /\ DueUpTo(c, n) <= Len(answers[c]) /\ DueUpTo(c, n)' = DueUpTo(c, n)
    BY <1>2, <1>4, <2>1 DEF IsDue
  <2>3. Fits(c, n, answers[c][DueUpTo(c, n)])
    BY <2>1, <2>2 DEF AnswersFit
  <2>4. answers'[c][DueUpTo(c, n)'] = answers[c][DueUpTo(c, n)]
    BY <2>2
  <2> QED  BY <2>1, <2>3, <2>4 DEF Fits, Served, Authorized
<1> QED  BY <1>3, <1>4 DEF AnswersFit

(* A reply is the answer due to the line at hand.                          *)
LEMMA ReplyIsDue ==
    ASSUME TransportsTypeOK, NEW c \in Conns, AnswersFit(c), taken[c] < Len(sent[c]),
           UNCHANGED <<sent, left>>,
           NEW m \in Nat, m = taken[c] + 1, IsDue(c, m),
           NEW id \in 0..MaxLines,
           NEW kind \in {"text", "result", "toolError", "invalidParams", "methodNotFound",
                         "indexUnavailable", "timeout", "internal"},
           Reply(c, id, kind),
           \A n \in 1..taken[c] : <<c, n>> \in recorded' <=> <<c, n>> \in recorded,
           Fits(c, m, [id |-> id, kind |-> kind])'
    PROVE  AnswersFit(c)'
<1> DEFINE t == taken[c]
           answer == [id |-> id, kind |-> kind]
<1>1. t \in Nat /\ answers[c] \in Seq(Answer)
  BY DEF TransportsTypeOK
<1>8. m = t + 1 /\ taken'[c] = t + 1
  BY ReplyKeepsTypes
<1>2. /\ left[c] = "gone" => answers'[c] = answers[c]
      /\ left[c] # "gone" => answers'[c] = Append(answers[c], answer)
  BY ReplyKeepsTypes
<1>3. \A n \in Nat : DueUpTo(c, n)' = DueUpTo(c, n)
  BY DEF DueUpTo, IsDue
<1>4. DueUpTo(c, t + 1) = DueUpTo(c, t) + 1 /\ DueUpTo(c, t) \in Nat
  BY <1>1, <1>8, DueUpToNext, DueUpToType
<1>5. Len(answers[c]) \in Nat /\ Len(answers[c]) <= DueUpTo(c, t)
      /\ (left[c] # "gone" => Len(answers[c]) = DueUpTo(c, t))
  BY <1>1 DEF AnswersFit
<1>6. /\ Len(answers'[c]) <= DueUpTo(c, t + 1)
      /\ left[c] # "gone" => Len(answers'[c]) = DueUpTo(c, t + 1)
  BY <1>1, <1>2, <1>4, <1>5
<1>7. ASSUME NEW n \in 1..(t + 1), IsDue(c, n), DueUpTo(c, n) <= Len(answers'[c])
      PROVE  Fits(c, n, answers[c][DueUpTo(c, n)])'
  <2>1. DueUpTo(c, n)' = DueUpTo(c, n)
    BY <1>3
  <2>2. CASE n = t + 1
    <3>1. left[c] # "gone"
      BY <1>2, <1>4, <1>5, <1>7, <2>2
    <3>2. answers'[c][DueUpTo(c, n)] = answer
      BY <1>1, <1>2, <1>4, <1>5, <2>2, <3>1
    <3> QED  BY <1>8, <2>1, <2>2, <3>2 DEF Fits, Served, Authorized
  <2>3. CASE n \in 1..t
    <3>1. DueUpTo(c, n) \in 1..DueUpTo(c, t)
      BY <1>1, <1>7, <2>3, DueUpToGrows
    <3>2. DueUpTo(c, n) <= Len(answers[c])
      BY <1>2, <1>5, <1>7, <3>1
    <3>3. answers'[c][DueUpTo(c, n)] = answers[c][DueUpTo(c, n)]
      BY <1>1, <1>2, <1>4, <3>1, <3>2
    <3>4. Fits(c, n, answers[c][DueUpTo(c, n)])
      BY <1>7, <2>3, <3>2 DEF AnswersFit
    <3>5. <<c, n>> \in recorded' <=> <<c, n>> \in recorded
      BY <2>3
    <3> QED  BY <2>1, <3>3, <3>4, <3>5 DEF Fits, Served, Authorized
  <2> QED  BY <1>1, <2>2, <2>3
<1> QED  BY <1>1, <1>3, <1>6, <1>7, <1>8 DEF AnswersFit, IsDue

(* The steps of a connection that is not the one that moves, and of the     *)
(* streams, whose latencies are recorded under 0.                           *)
LEMMA OthersKeepAnswers ==
    ASSUME TransportsTypeOK, AnswersFitLines, NEW c \in Conns,
           taken'[c] = taken[c], answers'[c] = answers[c],
           left'[c] # "gone" => left[c] # "gone", UNCHANGED sent,
           NEW x, x[2] \notin 1..taken[c] \/ x[1] # c, recorded' \in {recorded, recorded \cup {x}}
    PROVE  AnswersFit(c)'
<1>1. AnswersFit(c)
  BY DEF AnswersFitLines
<1>2. \A n \in 1..taken[c] : <<c, n>> \in recorded' <=> <<c, n>> \in recorded
  <2> TAKE n \in 1..taken[c]
  <2>1. x # <<c, n>>
    OBVIOUS
  <2> QED  BY <2>1
<1> QED  BY <1>1, <1>2, AnswersKept

(* Every step keeps the answers in the order of the lines they are due to. *)
LEMMA AnswersFitStep ==
    TransportsTypeOK /\ RecordedIsTaken /\ AnswersFitLines /\ [TransportsNext]_transportVars
        => AnswersFitLines'
<1> SUFFICES ASSUME TransportsTypeOK, RecordedIsTaken, AnswersFitLines,
                    [TransportsNext]_transportVars, NEW d \in Conns
             PROVE  AnswersFit(d)'
  BY DEF AnswersFitLines
<1>t. taken \in [Conns -> 0..MaxLines] /\ left \in [Conns -> {"no", "eof", "gone"}]
      /\ MaxLines \in Nat
  BY TransportsAssumption DEF TransportsTypeOK
<1>f. AnswersFit(d)
  BY DEF AnswersFitLines
<1>0. ASSUME UNCHANGED <<sent, taken, answers, recorded>>, left'[d] # "gone" => left[d] # "gone"
      PROVE  AnswersFit(d)'
  BY <1>0, <1>f, AnswersKept
<1>1. ASSUME NEW c \in Conns, Send(c) PROVE AnswersFit(d)'
  <2>1. UNCHANGED <<taken, answers, left, recorded>>
    BY <1>1 DEF Send
  <2>2. \A n \in 1..taken[d] : sent'[d][n] = sent[d][n]
    <3>1. \A n \in 1..Len(sent[d]) : sent'[d][n] = sent[d][n]
      BY <1>1, SendKeepsTypes
    <3>2. taken[d] <= Len(sent[d]) /\ Len(sent[d]) \in Nat /\ taken[d] \in Nat
      BY DEF TransportsTypeOK
    <3> QED  BY <3>1, <3>2
  <2> QED  BY <1>f, <2>1, <2>2, AnswersKept
<1>2. ASSUME NEW c \in Conns, EndOfInput(c) PROVE AnswersFit(d)'
  BY <1>t, <1>2, <1>0 DEF EndOfInput
<1>3. ASSUME NEW c \in Conns, Disconnect(c) PROVE AnswersFit(d)'
  BY <1>t, <1>3, <1>0 DEF Disconnect
<1>4. ASSUME NEW c \in Conns, Pass(c) PROVE AnswersFit(d)'
  <2>1. CASE c # d
    <3>1. UNCHANGED <<sent, answers, left, recorded>> /\ taken'[d] = taken[d]
      BY <1>4, <1>t, <2>1 DEF Pass
    <3> QED  BY <1>f, <3>1, AnswersKept
  <2>2. CASE c = d
    <3>1. UNCHANGED <<sent, answers, left, recorded>> /\ taken'[d] = taken[d] + 1
          /\ taken[d] \in Nat /\ ~IsDue(d, taken[d] + 1)
      BY <1>4, <1>t, <2>2 DEF Pass, AtLine, Id, IsDue
    <3>2. DueUpTo(d, taken[d] + 1) = DueUpTo(d, taken[d])
      BY <3>1, DueUpToNext
    <3>3. \A n \in Nat : DueUpTo(d, n)' = DueUpTo(d, n)
      BY <3>1 DEF DueUpTo, IsDue
    <3>4. \A n \in 1..(taken[d] + 1) : n \in 1..taken[d] \/ n = taken[d] + 1
      BY <3>1
    <3>5. ASSUME NEW n \in 1..taken[d], IsDue(d, n), DueUpTo(d, n) <= Len(answers[d])
          PROVE  Fits(d, n, answers[d][DueUpTo(d, n)])'
      <4>1. Fits(d, n, answers[d][DueUpTo(d, n)]) /\ DueUpTo(d, n)' = DueUpTo(d, n)
        BY <1>f, <3>1, <3>3, <3>5 DEF AnswersFit
      <4> QED  BY <3>1, <4>1 DEF Fits, Served, Authorized
    <3> QED  BY <1>f, <3>1, <3>2, <3>3, <3>4, <3>5 DEF AnswersFit, IsDue
  <2> QED  BY <2>1, <2>2
<1>r. ASSUME NEW c \in Conns, taken[c] < Len(sent[c]), UNCHANGED <<sent, left>>,
             NEW m \in 1..MaxLines, m = taken[c] + 1, IsDue(c, m),
             NEW id \in 0..MaxLines,
             NEW kind \in {"text", "result", "toolError", "invalidParams", "methodNotFound",
                           "indexUnavailable", "timeout", "internal"},
             Reply(c, id, kind),
             recorded' \in {recorded, recorded \cup {<<c, m>>}},
             Fits(c, m, [id |-> id, kind |-> kind])'
      PROVE  AnswersFit(d)'
  <2>1. CASE c # d
    <3>1. taken'[d] = taken[d] /\ answers'[d] = answers[d]
      BY <1>r, <2>1, ReplyKeepsTypes
    <3>2. <<c, m>>[1] # d
      BY <2>1
    <3> QED  BY <1>r, <3>1, <3>2, OthersKeepAnswers
  <2>2. CASE c = d
    <3>1. \A n \in 1..taken[c] : <<c, n>> \in recorded' <=> <<c, n>> \in recorded
      <4> TAKE n \in 1..taken[c]
      <4>1. n # m
        BY <1>r, <1>t
      <4>2. <<c, n>> # <<c, m>>
        BY <4>1
      <4> QED  BY <1>r, <4>2
    <3>2. m \in Nat
      BY <1>r
    <3> QED  BY <1>f, <1>r, <2>2, <3>1, <3>2, ReplyIsDue
  <2> QED  BY <2>1, <2>2
<1>5. ASSUME NEW c \in Conns, Refuse(c) PROVE AnswersFit(d)'
  <2>1. /\ taken[c] < Len(sent[c]) /\ UNCHANGED <<sent, left, recorded>>
        /\ Reply(c, 0, "text") /\ ~Served(c, AtLine(c)) /\ AtLine(c).what # "ignored"
    BY <1>5 DEF Refuse
  <2>2. PICK m \in 1..MaxLines : m = taken[c] + 1 /\ AtLine(c) = sent[c][m]
    BY <2>1, AtLineType
  <2>3. IsDue(c, m) /\ 0 \in 0..MaxLines
    BY <1>t, <2>1, <2>2 DEF IsDue
  <2>4. Fits(c, m, [id |-> 0, kind |-> "text"])'
    BY <2>1, <2>2 DEF Fits, Served, Authorized
  <2> QED  BY <2>1, <2>2, <2>3, <2>4, <1>r
<1>6. ASSUME NEW c \in Conns, AnswerAtOnce(c) PROVE AnswersFit(d)'
  <2>1. /\ taken[c] < Len(sent[c]) /\ UNCHANGED <<sent, left, recorded>>
        /\ Served(c, AtLine(c)) /\ AtLine(c).what \notin Searching
    BY <1>6 DEF AnswerAtOnce
  <2>2. PICK kind \in Outcomes(AtLine(c).what) : Reply(c, Id(c), kind)
    BY <1>6 DEF AnswerAtOnce
  <2>3. PICK m \in 1..MaxLines : m = taken[c] + 1 /\ AtLine(c) = sent[c][m] /\ Id(c) = m
    BY <2>1, AtLineType
  <2>4. IsDue(c, m) /\ m \in 0..MaxLines
    BY <1>t, <2>1, <2>3 DEF IsDue, Served
  <2>5. kind \in {"text", "result", "toolError", "invalidParams", "methodNotFound",
                  "indexUnavailable", "timeout", "internal"}
    BY <2>1, <2>2, AtLineType, OutcomesAreKinds
  <2>6. Fits(c, m, [id |-> m, kind |-> kind])'
    BY <2>1, <2>2, <2>3 DEF Fits, Served, Authorized
  <2> QED  BY <2>1, <2>2, <2>3, <2>4, <2>5, <2>6, <1>r
<1>7. ASSUME NEW c \in Conns, StartSearch(c) \/ SearchFinds(c) \/ SearchPanics(c) \/ Break(c)
                              \/ Close(c)
      PROVE  AnswersFit(d)'
  BY <1>7, <1>0 DEF StartSearch, SearchFinds, SearchPanics, Break, Close
<1>s. ASSUME NEW c \in Conns, pc[c] \in {"search", "record"}
      PROVE  /\ taken[c] < Len(sent[c])
             /\ Served(c, AtLine(c)) /\ AtLine(c).what \in Searching
             /\ "result" \in Outcomes(AtLine(c).what)
  <2>1. taken[c] < Len(sent[c]) /\ AtLine(c).what \in Searching /\ Authorized(c, AtLine(c))
    BY <1>s DEF TransportsTypeOK, AtLine, Id
  <2> QED  BY <2>1 DEF Served, Searching, Outcomes, ToolOutcomes
<1>9. ASSUME NEW c \in Conns, SearchFails(c) PROVE AnswersFit(d)'
  <2>1. /\ taken[c] < Len(sent[c]) /\ UNCHANGED <<sent, left, recorded>>
        /\ Served(c, AtLine(c)) /\ AtLine(c).what \in Searching
    BY <1>9, <1>s DEF SearchFails
  <2>2. PICK kind \in Outcomes(AtLine(c).what) \ {"result"} : Reply(c, Id(c), kind)
    BY <1>9 DEF SearchFails
  <2>3. PICK m \in 1..MaxLines : m = taken[c] + 1 /\ AtLine(c) = sent[c][m] /\ Id(c) = m
    BY <2>1, AtLineType
  <2>4. IsDue(c, m) /\ m \in 0..MaxLines
    BY <1>t, <2>1, <2>3 DEF IsDue, Served
  <2>5. kind \in {"text", "result", "toolError", "invalidParams", "methodNotFound",
                  "indexUnavailable", "timeout", "internal"}
    BY <2>1, <2>2, AtLineType, OutcomesAreKinds
  <2>7. <<c, m>> \notin recorded'
    <3>1. ~(m <= taken[c])
      BY <1>t, <2>3
    <3> QED  BY <2>1, <3>1 DEF RecordedIsTaken
  <2>6. Fits(c, m, [id |-> m, kind |-> kind])'
    BY <2>1, <2>2, <2>3, <2>7 DEF Fits, Served, Authorized
  <2> QED  BY <2>1, <2>2, <2>3, <2>4, <2>5, <2>6, <1>r
<1>10. ASSUME NEW c \in Conns, RecordLatency(c) PROVE AnswersFit(d)'
  <2>1. /\ taken[c] < Len(sent[c]) /\ UNCHANGED <<sent, left>>
        /\ Served(c, AtLine(c)) /\ AtLine(c).what \in Searching
        /\ "result" \in Outcomes(AtLine(c).what)
        /\ Reply(c, Id(c), "result") /\ recorded' = recorded \cup {<<c, Id(c)>>}
    BY <1>10, <1>s DEF RecordLatency
  <2>3. PICK m \in 1..MaxLines : m = taken[c] + 1 /\ AtLine(c) = sent[c][m] /\ Id(c) = m
    BY <2>1, AtLineType
  <2>4. IsDue(c, m) /\ m \in 0..MaxLines
    BY <1>t, <2>1, <2>3 DEF IsDue, Served
  <2>7. <<c, m>> \in recorded'
    BY <2>1, <2>3
  <2>6. Fits(c, m, [id |-> m, kind |-> "result"])'
    BY <2>1, <2>3, <2>7 DEF Fits, Served, Authorized
  <2> QED  BY <2>1, <2>3, <2>4, <2>6, <1>r
<1>11. ASSUME NEW s \in Streams, StreamRefused(s) \/ StreamStarts(s) \/ StreamTells(s)
                                  \/ StreamDone(s) \/ StreamLost(s)
       PROVE  AnswersFit(d)'
  BY <1>11, <1>0 DEF StreamRefused, StreamStarts, StreamTells, StreamDone, StreamLost, connVars
<1>12. ASSUME NEW s \in Streams, StreamSearched(s) PROVE AnswersFit(d)'
  <2>1. UNCHANGED <<sent, taken, answers, left>> /\ recorded' = recorded \cup {<<s, 0>>}
    BY <1>12 DEF StreamSearched, connVars
  <2>2. <<s, 0>>[2] \notin 1..taken[d]
    BY <1>t
  <2> QED  BY <2>1, <2>2, OthersKeepAnswers
<1>13. CASE UNCHANGED transportVars
  BY <1>13, <1>0 DEF transportVars, connVars
<1> QED
  BY <1>1, <1>2, <1>3, <1>4, <1>5, <1>6, <1>7, <1>9, <1>10, <1>11, <1>12, <1>13
  DEF TransportsNext

-----------------------------------------------------------------------------
(* A reply takes its line; it closes only a connection whose client is gone.*)
LEMMA ReplyMoves ==
    ASSUME TransportsTypeOK, NEW c \in Conns, NEW id, NEW kind, Reply(c, id, kind)
    PROVE  /\ taken' = [taken EXCEPT ![c] = @ + 1]
           /\ \A d \in Conns : taken[d] <= taken'[d]
           /\ \A d \in Conns : pc'[d] = "closed" => pc[d] = "closed" \/ left[d] = "gone"
           /\ \A d \in Conns : pc'[d] = "closed" /\ left[d] # "gone" => taken'[d] = taken[d]
BY DEF TransportsTypeOK, Reply

(* No latency is recorded before its line is taken.                        *)
LEMMA RecordedStep ==
    TransportsTypeOK /\ RecordedIsTaken /\ [TransportsNext]_transportVars => RecordedIsTaken'
<1> SUFFICES ASSUME TransportsTypeOK, RecordedIsTaken, [TransportsNext]_transportVars,
                    NEW d \in Conns, NEW n \in 1..MaxLines, <<d, n>> \in recorded'
             PROVE  n <= taken'[d]
  BY DEF RecordedIsTaken
<1>t. taken \in [Conns -> 0..MaxLines] /\ MaxLines \in Nat
  BY TransportsAssumption DEF TransportsTypeOK
<1>0. ASSUME recorded' = recorded, taken[d] <= taken'[d], taken'[d] \in Nat PROVE n <= taken'[d]
  BY <1>0, <1>t DEF RecordedIsTaken
<1>u. ASSUME UNCHANGED <<recorded, taken>> PROVE n <= taken'[d]
  BY <1>t, <1>u DEF RecordedIsTaken
<1>1. ASSUME NEW c \in Conns, Send(c) \/ EndOfInput(c) \/ Disconnect(c) \/ StartSearch(c)
             \/ SearchFinds(c) \/ SearchPanics(c) \/ Break(c) \/ Close(c)
      PROVE  n <= taken'[d]
  BY <1>1, <1>u
  DEF Send, EndOfInput, Disconnect, StartSearch, SearchFinds, SearchPanics, Break, Close
<1>2. ASSUME NEW c \in Conns, Pass(c) PROVE n <= taken'[d]
  BY <1>2, <1>t, <1>0 DEF Pass
<1>3. ASSUME NEW c \in Conns, Refuse(c) \/ AnswerAtOnce(c) \/ SearchFails(c)
      PROVE  n <= taken'[d]
  <2>1. recorded' = recorded /\ \E id, kind : Reply(c, id, kind)
    BY <1>3 DEF Refuse, AnswerAtOnce, SearchFails
  <2>2. taken' = [taken EXCEPT ![c] = @ + 1]
    BY <2>1, ReplyMoves
  <2> QED  BY <1>t, <2>1, <2>2, <1>0
<1>4. ASSUME NEW c \in Conns, RecordLatency(c) PROVE n <= taken'[d]
  <2>1. recorded' = recorded \cup {<<c, Id(c)>>} /\ Reply(c, Id(c), "result")
    BY <1>4 DEF RecordLatency
  <2>2. taken' = [taken EXCEPT ![c] = @ + 1]
    BY <2>1, ReplyMoves
  <2>3. CASE <<d, n>> \in recorded
    <3>1. n <= taken[d]
      BY <2>3 DEF RecordedIsTaken
    <3> QED  BY <1>t, <2>2, <3>1
  <2>4. CASE <<d, n>> = <<c, Id(c)>>
    BY <1>t, <2>2, <2>4 DEF Id
  <2> QED  BY <2>1, <2>3, <2>4
<1>5. ASSUME NEW s \in Streams, StreamRefused(s) \/ StreamStarts(s) \/ StreamTells(s)
                                  \/ StreamDone(s) \/ StreamLost(s)
      PROVE  n <= taken'[d]
  BY <1>5, <1>u DEF StreamRefused, StreamStarts, StreamTells, StreamDone, StreamLost, connVars
<1>6. ASSUME NEW s \in Streams, StreamSearched(s) PROVE n <= taken'[d]
  <2>1. taken' = taken /\ recorded' = recorded \cup {<<s, 0>>}
    BY <1>6 DEF StreamSearched, connVars
  <2>2. <<d, n>> # <<s, 0>>
    OBVIOUS
  <2> QED  BY <2>1, <2>2 DEF RecordedIsTaken
<1>7. CASE UNCHANGED transportVars
  BY <1>7, <1>u DEF transportVars, connVars
<1> QED
  BY <1>1, <1>2, <1>3, <1>4, <1>5, <1>6, <1>7 DEF TransportsNext

(* A connection whose client still reads closes when its input is drained. *)
LEMMA InputStep ==
    TransportsTypeOK /\ InputIsDrained /\ [TransportsNext]_transportVars => InputIsDrained'
<1> SUFFICES ASSUME TransportsTypeOK, InputIsDrained, [TransportsNext]_transportVars,
                    NEW d \in Conns, pc'[d] = "closed", left'[d] = "eof"
             PROVE  (taken[d] = Len(sent[d]) \/ Breaks(d, AtLine(d)))'
  BY DEF InputIsDrained
<1> DEFINE Drained == taken[d] = Len(sent[d]) \/ Breaks(d, AtLine(d))
<1>t. /\ taken \in [Conns -> 0..MaxLines] /\ left \in [Conns -> {"no", "eof", "gone"}]
      /\ pc \in [Conns -> {"idle", "search", "record", "closed", "panicked"}]
  BY DEF TransportsTypeOK
<1>u. ASSUME UNCHANGED <<sent, taken, left>>, pc[d] = "closed" PROVE Drained'
  BY <1>u DEF InputIsDrained, Breaks, AtLine, Id
<1>1. ASSUME NEW c \in Conns, Send(c) PROVE Drained'
  <2>1. UNCHANGED <<taken, pc, left>> /\ pc[c] # "closed"
    BY <1>1 DEF Send
  <2>2. c # d /\ sent'[d] = sent[d]
    BY <1>1, <2>1 DEF Send, TransportsTypeOK
  <2> QED  BY <2>1, <2>2 DEF InputIsDrained, Breaks, AtLine, Id
<1>2. ASSUME NEW c \in Conns, EndOfInput(c) PROVE Drained'
  <2>1. UNCHANGED <<taken, pc, sent>> /\ pc[c] # "closed" /\ left' = [left EXCEPT ![c] = "eof"]
    BY <1>2 DEF EndOfInput
  <2>2. c # d /\ left[d] = "eof"
    BY <1>t, <2>1
  <2> QED  BY <2>1, <2>2 DEF InputIsDrained, Breaks, AtLine, Id
<1>3. ASSUME NEW c \in Conns, Disconnect(c) PROVE Drained'
  <2>1. /\ UNCHANGED <<taken, sent>> /\ left' = [left EXCEPT ![c] = "gone"]
        /\ pc' \in {pc, [pc EXCEPT ![c] = "closed"]}
    BY <1>3 DEF Disconnect
  <2>2. c # d /\ left[d] = "eof" /\ pc[d] = "closed"
    BY <1>t, <2>1
  <2> QED  BY <2>1, <2>2 DEF InputIsDrained, Breaks, AtLine, Id
<1>4. ASSUME NEW c \in Conns, Pass(c) \/ StartSearch(c) \/ SearchFinds(c) \/ SearchPanics(c)
      PROVE  Drained'
  <2>1. UNCHANGED <<sent, left>> /\ pc[c] # "closed" /\ c # d
        /\ pc[d] = "closed" /\ taken'[d] = taken[d]
    BY <1>t, <1>4 DEF Pass, StartSearch, SearchFinds, SearchPanics
  <2> QED  BY <2>1 DEF InputIsDrained, Breaks, AtLine, Id
<1>5. ASSUME NEW c \in Conns,
             Refuse(c) \/ AnswerAtOnce(c) \/ SearchFails(c) \/ RecordLatency(c)
      PROVE  Drained'
  <2>1. UNCHANGED <<sent, left>> /\ \E id, kind : Reply(c, id, kind)
    BY <1>5 DEF Refuse, AnswerAtOnce, SearchFails, RecordLatency
  <2>2. pc[d] = "closed" /\ taken'[d] = taken[d]
    BY <2>1, ReplyMoves
  <2> QED  BY <2>1, <2>2 DEF InputIsDrained, Breaks, AtLine, Id
<1>6. ASSUME NEW c \in Conns, Break(c) PROVE Drained'
  <2>1. UNCHANGED <<sent, taken, left>> /\ pc' = [pc EXCEPT ![c] = "closed"]
        /\ Breaks(c, AtLine(c))
    BY <1>6 DEF Break
  <2>2. CASE c = d
    BY <2>1, <2>2 DEF Breaks, AtLine, Id
  <2>3. CASE c # d
    BY <1>t, <1>u, <2>1, <2>3
  <2> QED  BY <2>2, <2>3
<1>7. ASSUME NEW c \in Conns, Close(c) PROVE Drained'
  <2>1. UNCHANGED <<sent, taken, left>> /\ pc' = [pc EXCEPT ![c] = "closed"]
        /\ (taken[c] = Len(sent[c]) \/ left[c] = "gone")
    BY <1>7 DEF Close
  <2>2. CASE c = d
    BY <2>1, <2>2
  <2>3. CASE c # d
    BY <1>t, <1>u, <2>1, <2>3
  <2> QED  BY <2>2, <2>3
<1>8. ASSUME NEW s \in Streams, StreamRefused(s) \/ StreamStarts(s) \/ StreamSearched(s)
                                 \/ StreamTells(s) \/ StreamDone(s) \/ StreamLost(s)
      PROVE  Drained'
  BY <1>8, <1>u
  DEF StreamRefused, StreamStarts, StreamSearched, StreamTells, StreamDone, StreamLost, connVars
<1>9. CASE UNCHANGED transportVars
  BY <1>9, <1>u DEF transportVars, connVars
<1> QED
  BY <1>1, <1>2, <1>3, <1>4, <1>5, <1>6, <1>7, <1>8, <1>9 DEF TransportsNext

-----------------------------------------------------------------------------
(* What a stream tells is a listing of the results, or the first of it.    *)
AllTold(k) == [n \in 1..k |-> <<"result", n>>]

LEMMA PrefixOfAll ==
    ASSUME NEW k \in Nat, NEW t \in Seq(Event), Len(t) <= k,
           \A n \in 1..Len(t) : t[n] = <<"result", n>>
    PROVE  IsPrefix(t, AllTold(k)) /\ (Len(t) = k => t = AllTold(k))
<1>1. Len(t) \in Nat
  OBVIOUS
<1>2. AllTold(k) \in Seq({"result"} \X Nat) /\ Len(AllTold(k)) = k
  BY DEF AllTold
<1>3. \A n \in 1..k : AllTold(k)[n] = <<"result", n>>
  BY Zenon DEF AllTold
<1>4. \A n \in 1..Len(t) : n \in 1..k
  BY <1>1
<1>5. \A n \in 1..Len(t) : t[n] = AllTold(k)[n]
  BY <1>3, <1>4
<1>6. SubSeq(t, 1, Len(t)) = SubSeq(AllTold(k), 1, Len(t))
  BY <1>1, <1>2, <1>5
<1>7. ASSUME Len(t) = k PROVE t = AllTold(k)
  <2>1. t = [n \in 1..k |-> t[n]]
    BY <1>7
  <2>2. AllTold(k) = [n \in 1..k |-> AllTold(k)[n]]
    BY DEF AllTold
  <2>3. [n \in 1..k |-> t[n]] = [n \in 1..k |-> AllTold(k)[n]]
    BY <1>5, <1>7
  <2> QED  BY <2>1, <2>2, <2>3, Zenon
<1> QED  BY <1>2, <1>6, <1>7 DEF IsPrefix

(* Every step of a stream tells the next of its results, or ends it.       *)
LEMMA StreamsStep ==
    TransportsTypeOK /\ StreamsInOrder /\ StreamsTellAll /\ [TransportsNext]_transportVars
        => StreamsInOrder' /\ StreamsTellAll'
<1> DEFINE InOrder(s) ==
             /\ streamPc[s] \in {"new", "search"} => told[s] = <<>> /\ found[s] = 0
             /\ streamPc[s] = "tell" => found[s] > 0
             /\ streamPc[s] \in {"tell", "gone"} =>
                  /\ Len(told[s]) <= found[s]
                  /\ \A n \in 1..Len(told[s]) : told[s][n] = <<"result", n>>
           TellsAll(s) ==
             /\ streamPc[s] = "closed" => told[s] \in {<<Error>>, Append(AllTold(found[s]), Done)}
             /\ streamPc[s] # "closed" => IsPrefix(told[s], AllTold(found[s]))
             /\ found[s] > 0 => <<s, 0>> \in recorded
<1> SUFFICES ASSUME TransportsTypeOK, StreamsInOrder, StreamsTellAll,
                    [TransportsNext]_transportVars, NEW d \in Streams
             PROVE  InOrder(d)' /\ TellsAll(d)'
  BY DEF StreamsInOrder, StreamsTellAll, AllTold
<1>t. /\ streamPc \in [Streams -> {"new", "search", "tell", "closed", "gone"}]
      /\ found \in [Streams -> 0..MaxItems] /\ MaxItems \in Nat
      /\ told \in [Streams -> Seq(Event)]
  BY TransportsAssumption DEF TransportsTypeOK
<1>n. TransportsTypeOK'
  BY TransportsTypesStep
<1>i. InOrder(d) /\ TellsAll(d)
  BY DEF StreamsInOrder, StreamsTellAll, AllTold
<1>p. ASSUME streamPc'[d] # "closed", InOrder(d)', found'[d] > 0 => <<d, 0>> \in recorded'
      PROVE  InOrder(d)' /\ TellsAll(d)'
  <2>1. streamPc'[d] \in {"new", "search", "tell", "gone"} /\ found'[d] \in Nat
    BY <1>n, <1>p, TransportsAssumption DEF TransportsTypeOK
  <2>2. Len(told'[d]) <= found'[d] /\ \A n \in 1..Len(told'[d]) : told'[d][n] = <<"result", n>>
    BY <1>p, <2>1
  <2>3. IsPrefix(told'[d], AllTold(found'[d]))
    <3>1. told'[d] \in Seq(Event)
      BY <1>n DEF TransportsTypeOK
    <3> QED  BY <2>1, <2>2, <3>1, PrefixOfAll
  <2> QED  BY <1>p, <2>3
<1>u. ASSUME streamPc'[d] = streamPc[d], found'[d] = found[d], told'[d] = told[d],
             recorded \subseteq recorded'
      PROVE  InOrder(d)' /\ TellsAll(d)'
  BY <1>i, <1>u DEF AllTold
<1>1. ASSUME NEW c \in Conns, Send(c) \/ EndOfInput(c) \/ Disconnect(c) \/ Pass(c) \/ Refuse(c)
             \/ AnswerAtOnce(c) \/ StartSearch(c) \/ SearchFinds(c) \/ SearchFails(c)
             \/ RecordLatency(c) \/ SearchPanics(c) \/ Break(c) \/ Close(c)
      PROVE  InOrder(d)' /\ TellsAll(d)'
  <2>1. UNCHANGED streamVars /\ recorded \subseteq recorded'
    BY <1>1 DEF Send, EndOfInput, Disconnect, Pass, Refuse, AnswerAtOnce, StartSearch,
                SearchFinds, SearchFails, RecordLatency, SearchPanics, Break, Close
  <2> HIDE DEF InOrder, TellsAll
  <2> QED  BY <2>1, <1>u DEF streamVars
<1>2. ASSUME NEW s \in Streams, s # d, StreamRefused(s) \/ StreamStarts(s) \/ StreamSearched(s)
                                  \/ StreamTells(s) \/ StreamDone(s) \/ StreamLost(s)
      PROVE  InOrder(d)' /\ TellsAll(d)'
  <2>1. streamPc'[d] = streamPc[d] /\ told'[d] = told[d]
    BY <1>2, <1>t DEF StreamRefused, StreamStarts, StreamSearched, StreamTells, StreamDone, StreamLost
  <2>2. found'[d] = found[d]
    BY <1>2, <1>t DEF StreamRefused, StreamStarts, StreamSearched, StreamTells, StreamDone, StreamLost
  <2>3. recorded \subseteq recorded'
    BY <1>2 DEF StreamRefused, StreamStarts, StreamSearched, StreamTells, StreamDone, StreamLost
  <2> HIDE DEF InOrder, TellsAll
  <2> QED  BY <2>1, <2>2, <2>3, <1>u
<1>3. ASSUME StreamRefused(d) PROVE InOrder(d)' /\ TellsAll(d)'
  <2>1. streamPc'[d] = "closed" /\ told'[d] = <<Error>> /\ found'[d] = found[d]
        /\ recorded' = recorded
    BY <1>3, <1>t DEF StreamRefused
  <2> QED  BY <1>i, <2>1
<1>4. ASSUME StreamStarts(d) PROVE InOrder(d)' /\ TellsAll(d)'
  <2>1. /\ streamPc'[d] = "search" /\ told'[d] = <<>> /\ found'[d] = 0
        /\ UNCHANGED recorded
    BY <1>4, <1>i, <1>t DEF StreamStarts
  <2>2. InOrder(d)'
    BY <2>1
  <2>3. streamPc'[d] # "closed" /\ ~(found'[d] > 0)
    BY <2>1
  <2> HIDE DEF InOrder, TellsAll
  <2> QED  BY <2>2, <2>3, <1>p
<1>5. ASSUME StreamSearched(d) PROVE InOrder(d)' /\ TellsAll(d)'
  <2>1. PICK n \in 0..MaxItems :
         IF n = 0 THEN /\ told' = [told EXCEPT ![d] = <<Error>>]
                       /\ streamPc' = [streamPc EXCEPT ![d] = "closed"]
                       /\ UNCHANGED found
                  ELSE /\ found' = [found EXCEPT ![d] = n]
                       /\ streamPc' = [streamPc EXCEPT ![d] = "tell"]
                       /\ UNCHANGED told
    BY <1>5 DEF StreamSearched
  <2>2. <<d, 0>> \in recorded' /\ told[d] = <<>> /\ found[d] = 0
    BY <1>5, <1>i DEF StreamSearched
  <2>3. CASE n = 0
    BY <1>t, <2>1, <2>2, <2>3
  <2>4. CASE n # 0
    <3>1. streamPc'[d] = "tell" /\ found'[d] = n /\ told'[d] = <<>> /\ n > 0
      BY <1>t, <2>1, <2>2, <2>4
    <3>2. InOrder(d)'
      BY <3>1
    <3>3. streamPc'[d] # "closed"
      BY <3>1
    <3> HIDE DEF InOrder, TellsAll
    <3> QED  BY <2>2, <3>2, <3>3, <1>p
  <2> QED  BY <2>3, <2>4
<1>6. ASSUME StreamTells(d) PROVE InOrder(d)' /\ TellsAll(d)'
  <2>1. /\ streamPc[d] = "tell" /\ streamPc' = streamPc /\ found' = found /\ recorded' = recorded
        /\ told'[d] = Append(told[d], <<"result", Len(told[d]) + 1>>)
        /\ Len(told[d]) < found[d] /\ found[d] \in Nat /\ told[d] \in Seq(Event)
    BY <1>6, <1>t DEF StreamTells
  <2>2. /\ Len(told'[d]) = Len(told[d]) + 1 /\ Len(told[d]) \in Nat
        /\ told'[d][Len(told[d]) + 1] = <<"result", Len(told[d]) + 1>>
        /\ \A n \in 1..Len(told[d]) : told'[d][n] = told[d][n]
    BY <2>1
  <2>3. \A n \in 1..Len(told'[d]) : told'[d][n] = <<"result", n>>
    BY <1>i, <2>1, <2>2
  <2>4. InOrder(d)'
    BY <1>i, <2>1, <2>2, <2>3
  <2>5. streamPc'[d] # "closed" /\ (found'[d] > 0 => <<d, 0>> \in recorded')
    BY <1>i, <2>1
  <2> HIDE DEF InOrder, TellsAll
  <2> QED  BY <2>4, <2>5, <1>p
<1>7. ASSUME StreamDone(d) PROVE InOrder(d)' /\ TellsAll(d)'
  <2>1. /\ streamPc[d] = "tell" /\ streamPc'[d] = "closed" /\ found' = found
        /\ recorded' = recorded /\ told'[d] = Append(told[d], Done) /\ Len(told[d]) = found[d]
    BY <1>7, <1>t DEF StreamDone
  <2>2. told[d] = AllTold(found[d])
    <3>1. Len(told[d]) <= found[d] /\ \A n \in 1..Len(told[d]) : told[d][n] = <<"result", n>>
      BY <1>i, <2>1
    <3>2. found[d] \in Nat /\ told[d] \in Seq(Event)
      BY <1>t
    <3> QED  BY <2>1, <3>1, <3>2, PrefixOfAll
  <2> QED  BY <1>i, <2>1, <2>2
<1>8. ASSUME StreamLost(d) PROVE InOrder(d)' /\ TellsAll(d)'
  <2>1. /\ streamPc[d] \in {"new", "search", "tell"} /\ streamPc'[d] = "gone"
        /\ UNCHANGED <<found, told, recorded>>
    BY <1>8, <1>t DEF StreamLost
  <2>2. Len(told[d]) <= found[d] /\ \A n \in 1..Len(told[d]) : told[d][n] = <<"result", n>>
    <3>1. CASE streamPc[d] = "tell"
      BY <1>i, <3>1
    <3>2. CASE streamPc[d] # "tell"
      <4>1. told[d] = <<>> /\ found[d] = 0
        BY <1>i, <2>1, <3>2
      <4>2. Len(told[d]) = 0
        BY <4>1
      <4> QED  BY <4>1, <4>2
    <3> QED  BY <3>1, <3>2
  <2>4. InOrder(d)'
    BY <2>1, <2>2
  <2>5. streamPc'[d] # "closed" /\ (found'[d] > 0 => <<d, 0>> \in recorded')
    BY <1>i, <2>1
  <2> HIDE DEF InOrder, TellsAll
  <2> QED  BY <2>4, <2>5, <1>p
<1>9. CASE UNCHANGED transportVars
  <2>1. UNCHANGED <<streamPc, found, told, recorded>>
    BY <1>9 DEF transportVars, streamVars
  <2> HIDE DEF InOrder, TellsAll
  <2> QED  BY <2>1, <1>u
<1> HIDE DEF InOrder, TellsAll
<1>10. CASE \E s \in Streams : \/ StreamRefused(s) \/ StreamStarts(s) \/ StreamSearched(s)
                               \/ StreamTells(s) \/ StreamDone(s) \/ StreamLost(s)
  BY <1>10, <1>2, <1>3, <1>4, <1>5, <1>6, <1>7, <1>8
<1> QED  BY <1>1, <1>9, <1>10 DEF TransportsNext

-----------------------------------------------------------------------------
(* Every reachable state of the transports satisfies the inductive invariant.*)
THEOREM TransportsInvariant == TransportsSpec => []TransportsInv
<1>1. TransportsInit => TransportsInv
  <2> SUFFICES ASSUME TransportsInit PROVE TransportsInv
    OBVIOUS
  <2> USE TransportsAssumption
  <2>1. TransportsTypeOK
    BY DEF TransportsInit, TransportsTypeOK
  <2>2. RecordedIsTaken /\ InputIsDrained
    BY DEF TransportsInit, RecordedIsTaken, InputIsDrained
  <2>3. StreamsInOrder
    BY DEF TransportsInit, StreamsInOrder
  <2>4. StreamsTellAll
    <3> SUFFICES ASSUME NEW s \in Streams PROVE IsPrefix(told[s], AllTold(found[s]))
      BY DEF TransportsInit, StreamsTellAll, AllTold
    <3>1. told[s] = <<>> /\ found[s] = 0
      BY DEF TransportsInit
    <3>2. Len(told[s]) <= found[s] /\ \A n \in 1..Len(told[s]) : told[s][n] = <<"result", n>>
      BY <3>1
    <3>3. told[s] \in Seq(Event) /\ found[s] \in Nat
      BY <3>1
    <3> QED  BY <3>2, <3>3, PrefixOfAll
  <2>5. AnswersFitLines
    <3> SUFFICES ASSUME NEW c \in Conns PROVE AnswersFit(c)
      BY DEF AnswersFitLines
    <3>1. taken[c] = 0 /\ answers[c] = <<>>
      BY DEF TransportsInit
    <3>2. DueUpTo(c, 0) = 0
      <4>1. {m \in 1..0 : IsDue(c, m)} = {}
        OBVIOUS
      <4> QED  BY <4>1, FS_EmptySet DEF DueUpTo
    <3> QED  BY <3>1, <3>2 DEF AnswersFit
  <2> QED  BY <2>1, <2>2, <2>3, <2>4, <2>5 DEF TransportsInv
<1>2. TransportsInv /\ [TransportsNext]_transportVars => TransportsInv'
  BY TransportsTypesStep, AnswersFitStep, RecordedStep, InputStep, StreamsStep
  DEF TransportsInv
<1> QED  BY <1>1, <1>2, PTL DEF TransportsSpec

(* No connection is served more than it was sent, and all variables keep    *)
(* their types.                                                             *)
THEOREM TransportsTypeCorrect == TransportsSpec => []TransportsTypeOK
<1>1. TransportsInv => TransportsTypeOK
  BY DEF TransportsInv
<1> QED  BY <1>1, TransportsInvariant, PTL

(* A connection's answers are those due to its lines, in the order of the   *)
(* lines, each with its line's id and none missing while the client is      *)
(* there, and a search's latency is recorded exactly when it has results.   *)
THEOREM AnswersAlwaysFitLines == TransportsSpec => []AnswersFitLines
<1>1. TransportsInv => AnswersFitLines
  BY DEF TransportsInv
<1> QED  BY <1>1, TransportsInvariant, PTL

(* A loop whose client still reads ends only when it took all of its input, *)
(* or all before a line it cannot read.                                     *)
THEOREM InputAlwaysDrained == TransportsSpec => []InputIsDrained
<1>1. TransportsInv => InputIsDrained
  BY DEF TransportsInv
<1> QED  BY <1>1, TransportsInvariant, PTL

(* A stream that is told to its end is one error, or all results in their   *)
(* order and then done; whenever it breaks off, it was a first part of it.  *)
THEOREM StreamsAlwaysTellAll == TransportsSpec => []StreamsTellAll
<1>1. TransportsInv => StreamsTellAll
  BY DEF TransportsInv
<1> QED  BY <1>1, TransportsInvariant, PTL

=============================================================================
