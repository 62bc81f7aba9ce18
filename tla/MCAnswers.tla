----------------------------- MODULE MCAnswers -----------------------------
(***************************************************************************)
(* The parts that make an answer and share no state, checked in one run:   *)
(* `part' picks the one that moves, so that their state spaces add up.     *)
(***************************************************************************)
EXTENDS LocalAnswer, RetrieverRuntime, HybridSearch, StreamingSentenceBuffer

VARIABLE part
vars == <<part, answerVars, runtimeVars, searchVars, sentenceVars>>

Init ==
    /\ part \in {"answer", "runtime", "search", "sentences"}
    /\ AnswerInit /\ RuntimeInit /\ SearchInit /\ SentenceInit
    /\ part # "answer" => router
    /\ part # "runtime" => /\ config = [backend |-> "bm25", filter |-> FALSE]
                           /\ texts = <<"a">>

Next ==
    \/ /\ part = "answer" /\ AnswerNext
       /\ UNCHANGED <<part, runtimeVars, searchVars, sentenceVars>>
    \/ /\ part = "runtime" /\ RuntimeNext
       /\ UNCHANGED <<part, answerVars, searchVars, sentenceVars>>
    \/ /\ part = "search" /\ SearchNext
       /\ UNCHANGED <<part, answerVars, runtimeVars, sentenceVars>>
    \/ /\ part = "sentences" /\ SentenceNext
       /\ UNCHANGED <<part, answerVars, runtimeVars, searchVars>>

Spec == Init /\ [][Next]_vars

\* an emergency full of other words, a fact, a wish, a long question without facts, chatter
Words(n) == [d \in Dictionary |-> IF d \in DOMAIN n THEN n[d] ELSE 0]
MCQuestions == {
    [words |-> Words([fault |-> 1, critical |-> 1, technical |-> 1]), distinct |-> 2, length |-> 20],
    [words |-> Words([technical |-> 1, creative |-> 1]), distinct |-> 2, length |-> 20],
    [words |-> Words([creative |-> 1]), distinct |-> 1, length |-> 20],
    [words |-> Words([critical |-> 1, question |-> 7]), distinct |-> 8, length |-> 120],
    [words |-> Words([question |-> 1]), distinct |-> 1, length |-> 10]}

\* a text, the same chunks reworded, other chunks as many, one chunk more
MCIds == [a |-> <<1, 2>>, reworded |-> <<1, 2>>, other |-> <<1, 3>>, longer |-> <<1, 2, 3>>]

\* one of the weights may be 0; without the filter its candidates are of no use
MCSettings == {s \in [topK : 1..2, candidates : 1..2, filterCandidates : 1..2,
                      sparseWeight : 0..1, denseWeight : 0..2, filter : BOOLEAN] :
                  s.sparseWeight + s.denseWeight > 0 /\ (s.filter \/ s.filterCandidates = 1)}

\* "!", and a Chinese full stop, which shares its first byte with other characters
MCDelimiters == {<<"!">>, <<"x", "y">>}
=============================================================================
