---------------------------- MODULE HybridSearch ----------------------------
(***************************************************************************)
(* One search through the retrievers: Bm25Retriever and DenseRetriever     *)
(* rank the chunks (src/bm25_retriever.cpp, src/dense_retriever.cpp,       *)
(* src/dense_vector_index.cpp), HybridRetriever fuses their ranks          *)
(* (src/hybrid_retriever.cpp) and RelevanceFilteringRetriever drops what   *)
(* is irrelevant (src/relevance_filtering_retriever.cpp).  How BM25 and    *)
(* the embedding come to their scores is left out: they are any numbers.   *)
(*                                                                         *)
(* A list of results is a function from its chunks to their scores: all    *)
(* of the code's lists are ordered by score, and by chunk id among equals. *)
(***************************************************************************)
EXTENDS Integers, FiniteSets, Functions

CONSTANTS
    Chunks,         \* chunk ids
    SparseScores,   \* Bm25 scores; 0 when too few terms of the query match
    DenseScores,    \* similarities
    MinimumSimilarity, MinimumSparse, MinimumDense,   \* of DenseRetriever, of the filter
    Settings,       \* top_k, hybrid_candidate_top_k, relevance_candidate_top_k, the weights,
                    \* and whether results are filtered
    RrfK,           \* rrf_k
    Scale           \* a multiple of every RrfK + rank, to compute in integers

ASSUME HybridSearchAssumption ==
    /\ IsFiniteSet(Chunks) /\ Chunks \subseteq Nat
    /\ SparseScores \subseteq Int /\ DenseScores \subseteq Int
    /\ {MinimumSimilarity, MinimumSparse, MinimumDense} \subseteq Int
    /\ Settings \subseteq [topK : Nat, candidates : Nat, filterCandidates : Nat,
                           sparseWeight : Nat, denseWeight : Nat, filter : BOOLEAN]
    /\ RrfK \in Nat /\ Scale \in Nat \ {0}
    /\ \A rank \in 1 .. Cardinality(Chunks) : Scale % (RrfK + rank) = 0

VARIABLES
    scores,     \* [Chunks -> [sparse, dense]]
    setting,
    step,       \* "ask", "rank", "fuse", "filter", "done"
    sparseResults, denseResults, results   \* lists

searchVars == <<scores, setting, step, sparseResults, denseResults, results>>

Scores == [Chunks -> [sparse : SparseScores, dense : DenseScores]]
Nothing == [c \in {} |-> 0]

SearchInit ==
    /\ scores = <<>> /\ setting = <<>> /\ step = "ask"
    /\ sparseResults = Nothing /\ denseResults = Nothing /\ results = Nothing

\* a query, by what it scores
Ask ==
    /\ step = "ask" /\ step' = "rank"
    /\ scores' \in Scores /\ setting' \in Settings
    /\ UNCHANGED <<sparseResults, denseResults, results>>

Larger(a, b) == IF a > b THEN a ELSE b

\* the order of a list, a place in it, and its resize()
Ahead(list, a, b) == list[a] > list[b] \/ (list[a] = list[b] /\ a < b)
Position(list, c) == 1 + Cardinality({d \in DOMAIN list : Ahead(list, d, c)})
Top(list, k) == Restrict(list, {c \in DOMAIN list : Position(list, c) <= k})

\* the filter asks its retriever for enough candidates, and so does the fusion
Asked == IF setting.filter THEN Larger(setting.topK, setting.filterCandidates) ELSE setting.topK
Candidates == Larger(Asked, setting.candidates)

SparseList == Top([c \in {d \in Chunks : scores[d].sparse > 0} |-> scores[c].sparse], Candidates)

\* it is cut first, and its weak hits are dropped then
DenseList ==
    LET hits == Top([c \in Chunks |-> scores[c].dense], Candidates)
    IN  Restrict(hits, {c \in DOMAIN hits : hits[c] >= MinimumSimilarity})

\* Bm25Retriever::searchTopK and DenseRetriever::searchTopK
Rank ==
    /\ step = "rank" /\ step' = "fuse"
    /\ sparseResults' = SparseList /\ denseResults' = DenseList
    /\ UNCHANGED <<scores, setting, results>>

\* the embedder fails on the query: DenseRetriever finds nothing
RankWithoutEmbedding ==
    /\ step = "rank" /\ step' = "fuse"
    /\ sparseResults' = SparseList /\ denseResults' = Nothing
    /\ UNCHANGED <<scores, setting, results>>

\* calculateRrfContribution, with ranks from 1
Contribution(list, weight, c) ==
    IF c \in DOMAIN list THEN weight * (Scale \div (RrfK + Position(list, c))) ELSE 0

FinalScore(c) == Contribution(sparseResults, setting.sparseWeight, c)
                 + Contribution(denseResults, setting.denseWeight, c)

\* a plausible bug: the second list overwrites what the first contributed
FuseOverwrites ==
    /\ step = "fuse" /\ step' = "filter"
    /\ results' = Top([c \in DOMAIN sparseResults \cup DOMAIN denseResults |->
                          IF c \in DOMAIN denseResults
                          THEN Contribution(denseResults, setting.denseWeight, c)
                          ELSE FinalScore(c)],
                      Asked)
    /\ UNCHANGED <<scores, setting, sparseResults, denseResults>>

Fuse ==
    /\ step = "fuse" /\ step' = "filter"
    /\ results' = Top([c \in DOMAIN sparseResults \cup DOMAIN denseResults |-> FinalScore(c)],
                      Asked)
    /\ UNCHANGED <<scores, setting, sparseResults, denseResults>>

\* a score that no list brought along is 0, which no minimum admits
Relevant(c) ==
    \/ c \in DOMAIN sparseResults /\ sparseResults[c] >= MinimumSparse
    \/ c \in DOMAIN denseResults /\ denseResults[c] >= MinimumDense

Filter ==
    /\ step = "filter" /\ step' = "done"
    /\ results' = Top(IF setting.filter
                      THEN Restrict(results, {c \in DOMAIN results : Relevant(c)})
                      ELSE results,
                      setting.topK)
    /\ UNCHANGED <<scores, setting, sparseResults, denseResults>>

SearchNext == Ask \/ Rank \/ RankWithoutEmbedding \/ Fuse \/ Filter
SearchSpec == SearchInit /\ [][SearchNext]_searchVars
-----------------------------------------------------------------------------
Before(a, b, score(_)) == score(a) > score(b) \/ (score(a) = score(b) /\ a < b)

\* both retrievers prefer a to b
Better(a, b) == /\ Before(a, b, LAMBDA c : scores[c].sparse)
                /\ Before(a, b, LAMBDA c : scores[c].dense)

(***************************************************************************)
(* The better chunk wins: one that both retrievers rank before another is  *)
(* returned before it, and is never the one that the cut to top_k, a       *)
(* shortage of candidates, a failed embedding or the filter takes away.    *)
(* (A fused score of 0 ranks nothing: it comes from a list of weight 0,    *)
(* which validateConfig() allows for one of the two.)                      *)
(***************************************************************************)
BetterComesFirst ==
    step = "done" =>
        \A a, b \in Chunks :
            Better(a, b) /\ b \in DOMAIN results /\ results[b] # 0
                => a \in DOMAIN results /\ Ahead(results, a, b)
=============================================================================
