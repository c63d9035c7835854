------------------------------- MODULE Ranking -------------------------------
(***************************************************************************)
(* How scoped_project_results ranks the chunks it loaded: the ids that the *)
(* lexical index and the vectors give back, fused by reciprocal rank, with *)
(* an exact symbol before them all, duplicates and unknown ids passed over *)
(* and as many results as were asked for, which may be ranked once more.   *)
(*                                                                         *)
(* What the three models of relevance say is free: any list of ids may     *)
(* come back, of chunks that are loaded or that other indexing left there. *)
(***************************************************************************)
EXTENDS Naturals, Sequences, FiniteSets, SequencesExt

CONSTANTS
    Ids,          \* ids of chunks: of loaded ones and of foreign ones
    Chunks,       \* the loaded chunks in their order: [id, symbol]
    Queries,      \* symbols that are asked for, or other queries
    MaxListed,    \* ids in one list: lexical_top_k, 20 or more in the code
    MaxTopK,      \* a bound
    RerankTopN    \* MCP_RERANK_TOP_N

Tiers == {"fast", "hybrid", "rerank"}

ASSUME RankingAssumption ==
    /\ Chunks \in Seq([id : Ids, symbol : Queries \union {"chunk"}]) \ {<<>>}
    /\ MaxListed \in Nat /\ MaxTopK \in Nat
    /\ RerankTopN \in Nat \ {0}

VARIABLES
    tier, query, topK,
    lexical, semantic,   \* the lists of ids that came back, best first
    ordered,             \* the ids in the order they are taken
    results,             \* indexes of chunks
    ranking              \* how far it is

rankVars == <<tier, query, topK, lexical, semantic, ordered, results, ranking>>
inputs == <<tier, query, topK, lexical, semantic>>

-----------------------------------------------------------------------------
Loaded == ToSet([i \in 1..Len(Chunks) |-> Chunks[i].id])

(* chunk_map: of chunks with one id the last.                               *)
ChunkOf(id) == CHOOSE i \in 1..Len(Chunks) :
    Chunks[i].id = id /\ \A j \in (i + 1)..Len(Chunks) : Chunks[j].id # id

(* The first chunk whose symbol is the query, whatever the case.            *)
ExactHits ==
    LET hits == {i \in 1..Len(Chunks) : Chunks[i].symbol = query}
    IN  IF hits = {} THEN <<>>
        ELSE <<Chunks[CHOOSE i \in hits : \A j \in hits : i <= j].id>>

(* A list may name an id twice, for two documents of one id or two points.  *)
Lists == UNION {[1..n -> Ids] : n \in 0..MaxListed}

-----------------------------------------------------------------------------
(* rrf_fuse *)

K == 60
Ranks(list, id) == {r \in 1..Len(list) : list[r] = id}

(* The score of an id is the sum of w / (K + rank) over its ranks, 1.0 for  *)
(* a lexical and 0.7 for a semantic one: here a fraction over a common      *)
(* denominator, and a tenth of the weights is 1.                            *)
Denominator ==
    LET product[n \in 0..MaxListed] == IF n = 0 THEN 1 ELSE product[n - 1] * (K + n)
    IN  product[MaxListed]

Part(list, weight, id) ==
    LET sum[n \in 0..Len(list)] ==
          IF n = 0 THEN 0
          ELSE sum[n - 1] + (IF list[n] = id THEN weight * (Denominator \div (K + n)) ELSE 0)
    IN  sum[Len(list)]

(* Mutant: the weights of the two lists are exchanged. *)
ScoreExchanged(id) == Part(lexical, 7, id) + Part(semantic, 10, id)

Score(id) == Part(lexical, 10, id) + Part(semantic, 7, id)

(* sort_by the score; ids with the same one come in any order, that of the  *)
(* hash map.                                                                *)
Fusions ==
    LET found == ToSet(lexical) \union ToSet(semantic)
    IN  {list \in [1..Cardinality(found) -> found] :
            /\ IsInjective(list)
            /\ \A i, j \in DOMAIN list : i < j => Score(list[i]) >= Score(list[j])}

(* The tier decides which lists there are.                                  *)
Orders == {ExactHits \o list : list \in IF tier = "fast" THEN {lexical} ELSE Fusions}

-----------------------------------------------------------------------------
Order ==
    /\ ranking = "listed"
    /\ ordered' \in Orders
    /\ ranking' = "ordered"
    /\ UNCHANGED <<inputs, results>>

(* Mutant: an id that was seen is taken again. *)
TakeAgain ==
    /\ ranking = "ordered" /\ ordered # <<>>
    /\ ordered' = Tail(ordered)
    /\ results' = IF Head(ordered) \in Loaded
                  THEN Append(results, ChunkOf(Head(ordered))) ELSE results
    /\ ranking' = IF Len(results') >= topK /\ results' # results THEN "collected"
                  ELSE ranking
    /\ UNCHANGED inputs

(* The next id, unless it was seen or nothing is loaded for it; at the cap  *)
(* of top_k.max(1) the rest is left.                                        *)
Take ==
    /\ ranking = "ordered" /\ ordered # <<>>
    /\ ordered' = Tail(ordered)
    /\ results' = IF Head(ordered) \in Loaded
                     /\ \A k \in 1..Len(results) : Chunks[results[k]].id # Head(ordered)
                  THEN Append(results, ChunkOf(Head(ordered))) ELSE results
    /\ ranking' = IF Len(results') >= topK /\ results' # results THEN "collected"
                  ELSE ranking
    /\ UNCHANGED inputs

TakeNoMore ==
    /\ ranking = "ordered" /\ ordered = <<>>
    /\ ranking' = "collected"
    /\ UNCHANGED <<inputs, ordered, results>>

(* rerank_results: the first of them in any order, and the rest; the order  *)
(* stays when nothing can be embedded.                                      *)
Rerank ==
    /\ ranking = "collected"
    /\ LET head == {i \in 1..Len(results) : i <= RerankTopN}
       IN  results' \in IF tier # "rerank" THEN {results}
                        ELSE {[i \in DOMAIN results |->
                                  IF i \in head THEN results[place[i]] ELSE results[i]]
                                : place \in {f \in [head -> head] : IsInjective(f)}}
    /\ ranking' = "answered"
    /\ UNCHANGED <<inputs, ordered>>

RankInit ==
    /\ tier \in Tiers
    /\ query \in Queries
    /\ topK \in 0..MaxTopK
    /\ lexical \in Lists
    /\ semantic \in IF tier = "fast" THEN {<<>>} ELSE Lists
    /\ ordered = <<>> /\ results = <<>>
    /\ ranking = "listed"

RankNext == Order \/ Take \/ TakeNoMore \/ Rerank
RankSpec == RankInit /\ [][RankNext]_rankVars

-----------------------------------------------------------------------------
(* Properties *)

Answered == {Chunks[results[k]].id : k \in 1..Len(results)}

Named == ToSet(lexical) \union ToSet(semantic)
Cap == IF topK = 0 THEN 1 ELSE topK

(* The results are different chunks, no more than asked for, and fewer only *)
(* when every loaded chunk that one of the lists named is among them; the   *)
(* chunk whose symbol was asked for is the first, or at least, when they    *)
(* are ranked again, among those.                                           *)
ResultsAreThoseNamed ==
    ranking = "answered" =>
        /\ Cardinality(Answered) = Len(results)
        /\ Len(results) <= Cap
        /\ Len(results) < topK => Named \intersect Loaded \subseteq Answered
        /\ ExactHits # <<>> =>
              /\ ExactHits[1] \in Answered
              /\ tier # "rerank" => Chunks[results[1]].id = ExactHits[1]

(* What this rests on, at each step of the ranking.                         *)
RankTypeOK ==
    /\ tier \in Tiers /\ query \in Queries /\ topK \in 0..MaxTopK
    /\ lexical \in Seq(Ids) /\ semantic \in Seq(Ids)
    /\ Len(lexical) \in 0..MaxListed /\ Len(semantic) \in 0..MaxListed
    /\ tier = "fast" => semantic = <<>>
    /\ ordered \in Seq(Ids)
    /\ results \in Seq(1..Len(Chunks))
    /\ ranking \in {"listed", "ordered", "collected", "answered"}
    /\ ranking = "listed" => results = <<>>

ResultsDiffer ==
    \A j, k \in 1..Len(results) :
        Chunks[results[j]].id = Chunks[results[k]].id => j = k

ResultsAreCapped ==
    /\ Len(results) <= Cap
    /\ ranking = "ordered" => Len(results) < Cap

NamedAreKept ==
    /\ ranking = "ordered" =>
          Named \intersect Loaded \subseteq Answered \union ToSet(ordered)
    /\ ranking \in {"collected", "answered"} /\ Len(results) < topK =>
          Named \intersect Loaded \subseteq Answered

ExactComesFirst ==
    ExactHits # <<>> =>
        /\ ranking = "ordered" /\ results = <<>> =>
              ordered # <<>> /\ ordered[1] = ExactHits[1]
        /\ ranking \in {"collected", "answered"} => ExactHits[1] \in Answered
        /\ results # <<>> /\ (ranking = "answered" => tier # "rerank") =>
              Chunks[results[1]].id = ExactHits[1]

RankInv ==
    /\ RankTypeOK
    /\ ResultsDiffer
    /\ ResultsAreCapped
    /\ NamedAreKept
    /\ ExactComesFirst

RankOf(list, id) == CHOOSE r \in Ranks(list, id) : TRUE

NamedOnceByBoth == {id \in Ids : /\ Cardinality(Ranks(lexical, id)) = 1
                                 /\ Cardinality(Ranks(semantic, id)) = 1}

RanksHigher(x, y) ==
    /\ RankOf(lexical, x) < RankOf(lexical, y)
    /\ \/ RankOf(semantic, x) < RankOf(semantic, y)
       \/ /\ RankOf(lexical, x) = RankOf(semantic, y)
          /\ RankOf(lexical, y) = RankOf(semantic, x)

(* Fusion respects what both lists agree on: of two ids that each list      *)
(* names once, the one that both rank higher comes before the other, and so *)
(* does the better lexical one of two that exchange their ranks; only the   *)
(* exact symbol may still go before it.                                     *)
FusionRespectsBothLists ==
    ranking = "ordered" /\ tier # "fast" /\ ordered \in Orders =>
        \A x, y \in NamedOnceByBoth : RanksHigher(x, y) =>
            \A j \in (Len(ExactHits) + 1)..Len(ordered) : ordered[j] = y =>
                \E i \in (Len(ExactHits) + 1)..(j - 1) : ordered[i] = x

=============================================================================
