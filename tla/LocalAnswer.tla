---------------------------- MODULE LocalAnswer ----------------------------
(***************************************************************************)
(* The answer backends that run inside the assistant's process: the policy *)
(* router (src/policy_routing_answer_backend.cpp with QueryClassifier and  *)
(* ResponsePolicy) and the plain local RAG (src/local_rag_llm_backend.cpp),*)
(* over one RkllmBackend.  Every question has a thread in query(), another *)
(* thread calls cancel().  A question is what the classifier's dictionary  *)
(* finds in it; retrieval finds nothing, something, or strong evidence.    *)
(***************************************************************************)
EXTENDS Integers, FiniteSets

CONSTANTS
    Queries,    \* the requests
    Questions,  \* what they may ask: see Features
    MaxParts,   \* bound on the chunks of an answer
    NoQuery

Dictionary == {"emergency", "fault", "critical", "technical", "maintenance", "feature",
               "question", "creative"}

\* how many words of each list a question holds, how many different words that are
\* (some are in two lists), and its length in bytes
Features == [words : [Dictionary -> Nat], distinct : Nat, length : Nat]

NoQuestion == [words |-> [d \in Dictionary |-> 0], distinct |-> 0, length |-> 0]

ASSUME LocalAnswerAssumption ==
    /\ Questions \subseteq Features /\ MaxParts \in Nat \ {0} /\ NoQuery \notin Queries

VARIABLES
    router,     \* whether the backend is the policy router
    place,      \* place of a request in query()
    question,   \* what it asks
    mode,       \* decision.mode
    active,     \* active_request_id_, or NoQuery when not active_
    made,       \* chunks the model, or the router itself, has made
    whole,      \* requests whose answer was made to its end
    heard,      \* chunks the handler was called with
    ended,      \* how the run ended: "finished", "error", "cancelled"
    result,     \* what query() will return: "ok" or "failed"
    running, cancelRequested, aborting,   \* RkllmBackend, and rkllm_abort() at work
    canceller,  \* place of the thread in cancel(); it holds state_mutex_ unless "idle"
    target,     \* the request it cancels
    asked       \* requests a cancellation was asked of (ghost)

streamVars == <<made, whole, heard>>
modelVars == <<running, cancelRequested, aborting>>
cancelVars == <<canceller, target, asked>>
answerVars == <<router, place, question, mode, active, streamVars, ended, result, modelVars,
                cancelVars>>

QueryPCs == {"new", "enter", "classify", "search", "canned", "built", "told", "prompt",
             "generate", "chunk", "ended", "reply", "leave", "done"}
Modes == {"none", "safety", "direct_rag", "rag_llm", "llm_only", "clarification"}
Canned == {"safety", "direct_rag", "clarification"}

AnswerTypeOK ==
    /\ router \in BOOLEAN /\ place \in [Queries -> QueryPCs]
    /\ question \in [Queries -> Questions \cup {NoQuestion}]
    /\ mode \in [Queries -> Modes] /\ active \in Queries \cup {NoQuery}
    /\ made \in [Queries -> 0..MaxParts] /\ heard \in [Queries -> 0..MaxParts]
    /\ whole \subseteq Queries /\ asked \subseteq Queries
    /\ ended \in [Queries -> {"none", "finished", "error", "cancelled"}]
    /\ result \in [Queries -> {"none", "ok", "failed"}]
    /\ running \in BOOLEAN /\ cancelRequested \in BOOLEAN /\ aborting \in BOOLEAN
    /\ canceller \in {"idle", "look", "flag", "abort"} /\ target \in Queries \cup {NoQuery}

AnswerInit ==
    /\ router \in BOOLEAN
    /\ place = [q \in Queries |-> "new"] /\ question = [q \in Queries |-> NoQuestion]
    /\ mode = [q \in Queries |-> "none"] /\ active = NoQuery
    /\ made = [q \in Queries |-> 0] /\ whole = {} /\ heard = [q \in Queries |-> 0]
    /\ ended = [q \in Queries |-> "none"] /\ result = [q \in Queries |-> "none"]
    /\ running = FALSE /\ cancelRequested = FALSE /\ aborting = FALSE
    /\ canceller = "idle" /\ target = NoQuery /\ asked = {}
-----------------------------------------------------------------------------
(***************************************************************************)
(* QueryClassifier: scores in thousandths, the first class that fits.      *)
(***************************************************************************)
Least(a, b) == IF a < b THEN a ELSE b

Factual(f) == Least(1000, 400 * (f.words["technical"] + f.words["maintenance"])
                          + 500 * f.words["feature"])
Creative(f) == Least(1000, 300 * f.words["creative"])
Complexity(f) == 3 * Least(100, f.length) + 40 * Least(10, f.distinct)
                 + 60 * Least(5, f.words["technical"])
Emergency(f) == \/ f.words["emergency"] > 0
                \/ f.words["fault"] > 0 /\ f.words["critical"] > 0

\* a plausible bug: facts are recognized before emergencies
CategoryFactsFirst(f) ==
    CASE Factual(f) >= 400 -> "factual"
      [] Factual(f) < 400 /\ Emergency(f) -> "emergency"
      [] OTHER -> "unknown"

Category(f) ==
    CASE Emergency(f) -> "emergency"
      [] ~Emergency(f) /\ Factual(f) >= 400 -> "factual"
      [] ~Emergency(f) /\ Factual(f) < 400 /\ Creative(f) >= 300 -> "creative"
      [] ~Emergency(f) /\ Factual(f) < 400 /\ Creative(f) < 300 /\ Complexity(f) >= 600 -> "complex"
      [] OTHER -> "unknown"

(***************************************************************************)
(* ResponsePolicy.                                                         *)
(***************************************************************************)
WithoutRetrieval(c) == IF c = "creative" THEN "llm_only" ELSE "rag_llm"

WithRetrieval(c, evidence) ==
    CASE c = "emergency" -> "safety"
      [] c = "factual" /\ evidence = "strong" -> "direct_rag"
      [] c # "emergency" /\ evidence # "none" /\ ~(c = "factual" /\ evidence = "strong") -> "rag_llm"
      [] c \in {"complex", "creative"} /\ evidence = "none" -> "llm_only"
      [] OTHER -> "clarification"
-----------------------------------------------------------------------------
(***************************************************************************)
(* query().  The scope guard clears the active request on every way out,   *)
(* exceptions included, before the result reaches the caller.              *)
(***************************************************************************)
At(q, p) == place[q] = p
Go(q, p) == place' = [place EXCEPT ![q] = p]
Leave(q, res) == Go(q, "leave") /\ result' = [result EXCEPT ![q] = res]

\* a plausible bug: cancel() does not keep the mutex while it tells the model
MutexAlwaysFree == TRUE

MutexFree == canceller = "idle"

Query(q) ==
    /\ At(q, "new") /\ Go(q, "enter")
    /\ \E asks \in Questions : question' = [question EXCEPT ![q] = asks]
    /\ UNCHANGED <<router, mode, active, streamVars, ended, result, modelVars, cancelVars>>

Enter(q) ==
    /\ At(q, "enter") /\ MutexFree
    /\ IF active = NoQuery
         THEN Go(q, "classify") /\ active' = q /\ UNCHANGED result
         ELSE Go(q, "done") /\ result' = [result EXCEPT ![q] = "failed"] /\ UNCHANGED active
    /\ UNCHANGED <<router, question, mode, streamVars, ended, modelVars, cancelVars>>

Decide(q, m) == mode' = [mode EXCEPT ![q] = m]

Classify(q) ==
    /\ At(q, "classify")
    /\ LET m == IF router THEN WithoutRetrieval(Category(question[q])) ELSE "rag_llm"
       IN  Decide(q, m) /\ Go(q, IF m = "llm_only" THEN "prompt" ELSE "search")
    /\ UNCHANGED <<router, question, active, streamVars, ended, result, modelVars, cancelVars>>

Search(q, evidence) ==
    /\ At(q, "search")
    /\ LET m == IF router THEN WithRetrieval(Category(question[q]), evidence) ELSE "rag_llm"
       IN  Decide(q, m) /\ Go(q, IF m \in Canned THEN "canned" ELSE "prompt")
    /\ UNCHANGED <<router, question, active, streamVars, ended, result, modelVars, cancelVars>>

\* the classifier, the retriever or the prompt throws
Throw(q) ==
    /\ place[q] \in {"classify", "search", "prompt"} /\ Leave(q, "failed")
    /\ UNCHANGED <<router, question, mode, active, streamVars, ended, modelVars, cancelVars>>

Make(q) == made' = [made EXCEPT ![q] = @ + 1]

\* an answer of the router's own is one chunk
BuildAnswer(q) ==
    /\ At(q, "canned") /\ Make(q) /\ Go(q, "built")
    /\ UNCHANGED <<router, question, mode, active, whole, heard, ended, result, modelVars, cancelVars>>

AnswerBuilt(q) ==
    /\ At(q, "built") /\ whole' = whole \cup {q} /\ Go(q, "told")
    /\ UNCHANGED <<router, question, mode, active, made, heard, ended, result, modelVars, cancelVars>>

\* the handler is called with the chunk, and may throw
TellAnswer(q) ==
    /\ At(q, "told")
    /\ \/ /\ heard' = [heard EXCEPT ![q] = @ + 1]
          /\ ended' = [ended EXCEPT ![q] = "finished"] /\ Go(q, "reply") /\ UNCHANGED result
       \/ Leave(q, "failed") /\ UNCHANGED <<heard, ended>>
    /\ UNCHANGED <<router, question, mode, active, made, whole, modelVars, cancelVars>>
-----------------------------------------------------------------------------
(***************************************************************************)
(* generateStream() of the model.                                          *)
(***************************************************************************)
StartRun(q) ==
    /\ At(q, "prompt") /\ Go(q, "generate")
    /\ cancelRequested' = FALSE /\ running' = TRUE /\ aborting' = FALSE
    /\ UNCHANGED <<router, question, mode, active, streamVars, ended, result, cancelVars>>

Generate(q) ==
    /\ At(q, "generate") /\ made[q] < MaxParts /\ Make(q) /\ Go(q, "chunk")
    /\ UNCHANGED <<router, question, mode, active, whole, heard, ended, result, modelVars, cancelVars>>

End(q, how) == Go(q, "ended") /\ ended' = [ended EXCEPT ![q] = how]

\* an exception of the handler ends the run with an error
CallHandler(q) ==
    /\ At(q, "chunk")
    /\ \/ heard' = [heard EXCEPT ![q] = @ + 1] /\ Go(q, "generate") /\ UNCHANGED ended
       \/ End(q, "error") /\ UNCHANGED heard
    /\ UNCHANGED <<router, question, mode, active, made, whole, result, modelVars, cancelVars>>

EndRun(q) ==
    /\ At(q, "generate")
    /\ \/ End(q, "finished") /\ whole' = IF made[q] > 0 THEN whole \cup {q} ELSE whole
       \/ End(q, "error") /\ UNCHANGED whole
       \/ aborting /\ End(q, "error") /\ UNCHANGED whole
    /\ UNCHANGED <<router, question, mode, active, made, heard, result, modelVars, cancelVars>>

\* run() after the model has returned; an empty answer is a failure too
Conclude(q) ==
    /\ At(q, "ended") /\ Go(q, "reply") /\ running' = FALSE
    /\ ended' = [ended EXCEPT ![q] = IF cancelRequested THEN "cancelled"
                                     ELSE IF made[q] = 0 THEN "error" ELSE @]
    /\ UNCHANGED <<router, question, mode, active, streamVars, result, cancelRequested, aborting,
                   cancelVars>>

\* a plausible bug: whatever was generated is returned as the answer
ReplyAnyway(q) ==
    /\ At(q, "reply") /\ Leave(q, "ok")
    /\ UNCHANGED <<router, question, mode, active, streamVars, ended, modelVars, cancelVars>>

\* the finished or the error event, whose handler may throw
Reply(q) ==
    /\ At(q, "reply")
    /\ \/ ended[q] = "finished" /\ Leave(q, "ok")
       \/ Leave(q, "failed")
    /\ UNCHANGED <<router, question, mode, active, streamVars, ended, modelVars, cancelVars>>

\* a plausible bug: a failed request stays active
ClearActiveOnSuccess(q) ==
    /\ At(q, "leave") /\ MutexFree /\ Go(q, "done")
    /\ active' = IF active = q /\ result[q] = "ok" THEN NoQuery ELSE active
    /\ UNCHANGED <<router, question, mode, streamVars, ended, result, modelVars, cancelVars>>

\* clearActiveRequest
ClearActive(q) ==
    /\ At(q, "leave") /\ MutexFree /\ Go(q, "done")
    /\ active' = IF active = q THEN NoQuery ELSE active
    /\ UNCHANGED <<router, question, mode, streamVars, ended, result, modelVars, cancelVars>>
-----------------------------------------------------------------------------
(***************************************************************************)
(* cancel() looks at the active request and tells the model under one      *)
(* lock.  rkllm_abort() may fail, and then the flag is taken back.         *)
(***************************************************************************)
queryVars == <<router, place, question, mode, active, streamVars, ended, result>>

Cancel(q) ==
    /\ canceller = "idle" /\ active = q
    /\ canceller' = "look" /\ target' = q /\ asked' = asked \cup {q}
    /\ UNCHANGED <<queryVars, modelVars>>

LookRunning ==
    /\ canceller = "look" /\ canceller' = IF running THEN "flag" ELSE "idle"
    /\ UNCHANGED <<queryVars, modelVars, target, asked>>

RaiseFlag ==
    /\ canceller = "flag" /\ canceller' = "abort" /\ cancelRequested' = TRUE
    /\ UNCHANGED <<queryVars, running, aborting, target, asked>>

Abort ==
    /\ canceller = "abort" /\ canceller' = "idle"
    /\ \/ aborting' = TRUE /\ UNCHANGED cancelRequested
       \/ cancelRequested' = FALSE /\ UNCHANGED aborting
    /\ UNCHANGED <<queryVars, running, target, asked>>
-----------------------------------------------------------------------------
Answering(q) ==
    \/ Enter(q) \/ Classify(q) \/ Throw(q) \/ BuildAnswer(q) \/ AnswerBuilt(q) \/ TellAnswer(q)
    \/ \E evidence \in {"none", "weak", "strong"} : Search(q, evidence)
    \/ StartRun(q) \/ Generate(q) \/ CallHandler(q) \/ EndRun(q) \/ Conclude(q) \/ Reply(q)
    \/ ClearActive(q)

Cancelling == LookRunning \/ RaiseFlag \/ Abort

AnswerNext ==
    \/ \E q \in Queries : Query(q) \/ Answering(q) \/ Cancel(q)
    \/ Cancelling

AnswerSpec == AnswerInit /\ [][AnswerNext]_answerVars
-----------------------------------------------------------------------------
Status(q) == CASE place[q] = "new" -> "new"
               [] place[q] = "done" -> result[q]
               [] OTHER -> "asked"

Stream == INSTANCE AnswerStream WITH
            status <- [q \in Queries |-> Status(q)],
            produced <- made,
            complete <- [q \in Queries |-> q \in whole]

(***************************************************************************)
(* Both backends keep the promise of a streamed question: the handler      *)
(* hears one generation in order, and query() succeeds only when it was    *)
(* completed and heard to its end, whatever fails or is cancelled on the   *)
(* way and whichever backend answers.                                      *)
(***************************************************************************)
ImplementsAnswerStream == Stream!SSpec

(***************************************************************************)
(* A run is told to stop, and a generation is reported as cancelled, only  *)
(* if a cancellation named its request: none that arrives late, while the  *)
(* model is already at work for another request, hits the wrong one.       *)
(***************************************************************************)
OnlyAskedAreCancelled ==
    \A q \in Queries :
        /\ ended[q] = "cancelled" => q \in asked
        /\ place[q] \in {"generate", "chunk"} /\ (cancelRequested \/ aborting) => q \in asked

(***************************************************************************)
(* An emergency is answered by the router with its guarded text or not at  *)
(* all, whatever other words the question holds and whatever the manual    *)
(* has to say: never by the model, never by a bare quotation.              *)
(***************************************************************************)
EmergencyIsGuarded ==
    \A q \in Queries :
        router /\ Emergency(question[q]) /\ heard[q] > 0 => mode[q] = "safety"

(***************************************************************************)
(* A question that is asked when no other is being answered is not         *)
(* refused, however the earlier ones ended: by an answer, an error, an     *)
(* exception of the retriever or the handler, or a cancellation.           *)
(***************************************************************************)
Idle(q) == \A p \in Queries \ {q} : place[p] \in {"new", "done"}
NotRefused ==
    [][\A q \in Queries : place[q] = "enter" /\ place'[q] = "done" => ~Idle(q)]_answerVars
=============================================================================
