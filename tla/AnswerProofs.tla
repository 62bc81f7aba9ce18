---------------------------- MODULE AnswerProofs ----------------------------
(***************************************************************************)
(* The voice board's own answers, for any number of requests, questions    *)
(* and chunks: no generation is cancelled but by a cancellation of its own *)
(* request, an emergency is never answered by the model, no request is     *)
(* refused when nothing else is being answered, and every query is a       *)
(* streamed question.  And, for any texts, chunks and scores, what makes   *)
(* an answer: retrievers whose data belong together, a ranking that puts   *)
(* the better chunk first, and sentences that do not depend on how the     *)
(* text arrives.  These parts share no state: each has its own section.    *)
(***************************************************************************)
EXTENDS LocalAnswer, RetrieverRuntime, HybridSearch, StreamingSentenceBuffer,
        FiniteSetTheorems, WellFoundedInduction, TLAPS

Generating == {"generate", "chunk", "ended"}
Working == QueryPCs \ {"new", "enter", "done"}
Early == {"new", "enter", "classify", "search"}

Domains == /\ place \in [Queries -> QueryPCs] /\ DOMAIN question = Queries
           /\ mode \in [Queries -> Modes] /\ DOMAIN ended = Queries /\ DOMAIN result = Queries
           /\ active \in Queries \cup {NoQuery}
           /\ made \in [Queries -> Nat] /\ heard \in [Queries -> Nat]
\* One request at a time: the active one is the one at work.
Scoped == \A q \in Queries : place[q] \in Working <=> active = q
\* The mutex: what cancel() has looked up stays the active request.
Held == canceller # "idle" => target = active /\ target \in Queries /\ target \in asked
\* The flags that a run can still see were raised for it.
Raised == \A q \in Queries : place[q] \in Generating /\ (cancelRequested \/ aborting) => q \in asked
Thrown == \A q \in Queries : ended[q] = "cancelled" => q \in asked
IInv == Domains /\ Scoped /\ Held /\ Raised /\ Thrown

LEMMA InitInv == AnswerInit => IInv
<1> SUFFICES ASSUME AnswerInit PROVE IInv
  OBVIOUS
<1>1. Domains
  BY DEF AnswerInit, Domains, QueryPCs, Modes
<1>2. Scoped
  BY LocalAnswerAssumption DEF AnswerInit, Scoped, Working
<1> QED BY <1>1, <1>2 DEF AnswerInit, IInv, Held, Raised, Thrown

LEMMA AnsweringInv == ASSUME IInv, NEW q \in Queries, Answering(q) PROVE IInv'
<1> USE LocalAnswerAssumption DEF IInv, Domains, Scoped, Held, Raised, Thrown, Generating, Working,
        QueryPCs, At, Go, Leave, modelVars, cancelVars, streamVars
<1>1. CASE Enter(q) BY <1>1 DEF Enter, MutexFree
<1>2. CASE Classify(q)
  <2>1. mode' \in [Queries -> Modes]
    BY <1>2 DEF Classify, Decide, WithoutRetrieval, Modes
  <2> QED BY <1>2, <2>1 DEF Classify
<1>3. CASE Throw(q) BY <1>3 DEF Throw
<1>4. CASE BuildAnswer(q) BY <1>4 DEF BuildAnswer, Make
<1>5. CASE AnswerBuilt(q) BY <1>5 DEF AnswerBuilt
<1>6. CASE TellAnswer(q) BY <1>6 DEF TellAnswer
<1>7. ASSUME NEW evidence \in {"none", "weak", "strong"}, Search(q, evidence) PROVE IInv'
  <2>1. mode' \in [Queries -> Modes]
    BY <1>7 DEF Search, Decide, WithRetrieval, Modes
  <2> QED BY <1>7, <2>1 DEF Search
<1>8. CASE StartRun(q) BY <1>8 DEF StartRun
<1>9. CASE Generate(q) BY <1>9 DEF Generate, Make
<1>10. CASE CallHandler(q) BY <1>10 DEF CallHandler, End
<1>11. CASE EndRun(q) BY <1>11 DEF EndRun, End
<1>12. CASE Conclude(q) BY <1>12 DEF Conclude
<1>13. CASE Reply(q) BY <1>13 DEF Reply
<1>14. CASE ClearActive(q) BY <1>14 DEF ClearActive, MutexFree
<1> QED
  BY <1>1, <1>2, <1>3, <1>4, <1>5, <1>6, <1>7, <1>8, <1>9, <1>10, <1>11, <1>12, <1>13, <1>14
  DEF Answering

LEMMA StepInv == IInv /\ [AnswerNext]_answerVars => IInv'
<1> SUFFICES ASSUME IInv, [AnswerNext]_answerVars PROVE IInv'
  OBVIOUS
<1> USE LocalAnswerAssumption DEF IInv, Domains, Scoped, Held, Raised, Thrown, Generating, Working,
        QueryPCs, At, Go, modelVars, cancelVars, streamVars, queryVars
<1>1. ASSUME NEW q \in Queries, Query(q) PROVE IInv'
  BY <1>1 DEF Query
<1>2. ASSUME NEW q \in Queries, Answering(q) PROVE IInv'
  BY <1>2, AnsweringInv
<1>3. ASSUME NEW q \in Queries, Cancel(q) PROVE IInv'
  BY <1>3 DEF Cancel
<1>4. CASE LookRunning BY <1>4 DEF LookRunning
<1>5. CASE RaiseFlag BY <1>5 DEF RaiseFlag
<1>6. CASE Abort BY <1>6 DEF Abort
<1>7. CASE UNCHANGED answerVars BY <1>7 DEF answerVars
<1> QED BY <1>1, <1>2, <1>3, <1>4, <1>5, <1>6, <1>7 DEF AnswerNext, Cancelling

THEOREM Invariance == AnswerSpec => []IInv
  BY InitInv, StepInv, PTL DEF AnswerSpec

(***************************************************************************)
(* cancel() keeps state_mutex_ from its look at the active request to the  *)
(* end of its call of the model, so that no other request can be the one   *)
(* it stops.                                                               *)
(***************************************************************************)
THEOREM AskedOnly == AnswerSpec => []OnlyAskedAreCancelled
<1>1. IInv => OnlyAskedAreCancelled
  BY DEF IInv, Raised, Thrown, OnlyAskedAreCancelled, Generating
<1> QED BY <1>1, Invariance, PTL

(***************************************************************************)
(* The scope guard of query() clears the active request on every way out,  *)
(* so that the next request is accepted.                                   *)
(***************************************************************************)
THEOREM NoneRefused == AnswerSpec => NotRefused
<1>1. ASSUME IInv, [AnswerNext]_answerVars
      PROVE  [\A q \in Queries : place[q] = "enter" /\ place'[q] = "done" => ~Idle(q)]_answerVars
  <2> SUFFICES ASSUME AnswerNext, NEW q \in Queries, place[q] = "enter", place'[q] = "done", Idle(q)
               PROVE  FALSE
    BY <1>1
  <2>1. active = NoQuery
    BY <1>1 DEF IInv, Domains, Scoped, Idle, Working
  <2>2. ASSUME NEW p \in Queries, Query(p) \/ Answering(p) PROVE p = q /\ Enter(q)
    <3>1. place' = place \/ \E pc \in QueryPCs : place' = [place EXCEPT ![p] = pc]
      BY <2>2 DEF Query, Answering, Enter, Classify, Throw, BuildAnswer, AnswerBuilt, TellAnswer,
        Search, StartRun, Generate, CallHandler, EndRun, Conclude, Reply, ClearActive, Go, Leave,
        End, QueryPCs
    <3>2. p = q
      BY <1>1, <3>1 DEF IInv, Domains
    <3> QED
      BY <2>2, <3>2, <1>1 DEF IInv, Domains, Query, Answering, Enter, Classify, Throw, BuildAnswer,
        AnswerBuilt, TellAnswer, Search, StartRun, Generate, CallHandler, EndRun, Conclude, Reply,
        ClearActive, Go, At
  <2>3. \A p \in Queries : ~Cancel(p)
    BY <1>1 DEF Cancel, queryVars
  <2>4. ~Cancelling
    BY <1>1 DEF Cancelling, LookRunning, RaiseFlag, Abort, queryVars
  <2>5. Enter(q)
    BY <2>2, <2>3, <2>4 DEF AnswerNext
  <2> QED
    BY <2>1, <2>5, <1>1 DEF Enter, Go, IInv, Domains, Scoped, Working, QueryPCs
<1> QED BY <1>1, Invariance, PTL DEF AnswerSpec, NotRefused
-----------------------------------------------------------------------------
(***************************************************************************)
(* The router decides for the guarded text before anything is said, and    *)
(* nothing that happens later to the request changes its mode.             *)
(***************************************************************************)
Guarded == \A q \in Queries :
    /\ place[q] \in Early => heard[q] = 0
    /\ router /\ place[q] \notin {"new", "enter", "done", "leave"} /\ Emergency(question[q]) =>
         IF place[q] \in {"classify", "search"} THEN TRUE ELSE mode[q] = "safety"
    /\ router /\ Emergency(question[q]) /\ heard[q] > 0 => mode[q] = "safety"

LEMMA EmergencyIsSeen ==
    ASSUME NEW f, Emergency(f), NEW evidence
    PROVE  WithoutRetrieval(Category(f)) = "rag_llm"
           /\ WithRetrieval(Category(f), evidence) = "safety"
<1>1. Category(f) = "emergency"
  BY DEF Category
<1> QED BY <1>1 DEF WithoutRetrieval, WithRetrieval

LEMMA InitGuarded == AnswerInit => Guarded
  BY DEF AnswerInit, Guarded, Early

LEMMA AnsweringGuarded ==
    ASSUME IInv, Guarded, NEW q \in Queries, Answering(q) PROVE Guarded'
<1> USE DEF IInv, Domains, Guarded, Early, At, Go, Leave, modelVars, cancelVars, streamVars
<1>1. CASE Enter(q) BY <1>1 DEF Enter
<1>2. CASE Classify(q) BY <1>2, EmergencyIsSeen DEF Classify, Decide
<1>3. CASE Throw(q) BY <1>3 DEF Throw
<1>4. CASE BuildAnswer(q) BY <1>4 DEF BuildAnswer, Make
<1>5. CASE AnswerBuilt(q) BY <1>5 DEF AnswerBuilt
<1>6. CASE TellAnswer(q) BY <1>6 DEF TellAnswer
<1>7. ASSUME NEW evidence \in {"none", "weak", "strong"}, Search(q, evidence) PROVE Guarded'
  BY <1>7, EmergencyIsSeen DEF Search, Decide
<1>8. CASE StartRun(q) BY <1>8 DEF StartRun
<1>9. CASE Generate(q) BY <1>9 DEF Generate, Make
<1>10. CASE CallHandler(q) BY <1>10 DEF CallHandler, End
<1>11. CASE EndRun(q) BY <1>11 DEF EndRun, End
<1>12. CASE Conclude(q) BY <1>12 DEF Conclude
<1>13. CASE Reply(q) BY <1>13 DEF Reply
<1>14. CASE ClearActive(q) BY <1>14 DEF ClearActive
<1> QED
  BY <1>1, <1>2, <1>3, <1>4, <1>5, <1>6, <1>7, <1>8, <1>9, <1>10, <1>11, <1>12, <1>13, <1>14
  DEF Answering

LEMMA StepGuarded == IInv /\ Guarded /\ [AnswerNext]_answerVars => Guarded'
<1> SUFFICES ASSUME IInv, Guarded, [AnswerNext]_answerVars PROVE Guarded'
  OBVIOUS
<1>1. ASSUME NEW q \in Queries, Query(q) PROVE Guarded'
  BY <1>1 DEF Query, IInv, Domains, Guarded, Early, At, Go, streamVars
<1>2. ASSUME NEW q \in Queries, Answering(q) PROVE Guarded'
  BY <1>2, AnsweringGuarded
<1>3. CASE UNCHANGED queryVars
  BY <1>3 DEF queryVars, Guarded, streamVars
<1> QED
  BY <1>1, <1>2, <1>3
  DEF AnswerNext, Cancel, Cancelling, LookRunning, RaiseFlag, Abort, answerVars, queryVars

(***************************************************************************)
(* An emergency is recognized before a fact, and answered with the guarded *)
(* text whatever retrieval finds: by the classifier's and the policy's     *)
(* order of tests.                                                         *)
(***************************************************************************)
THEOREM GuardedEmergency == AnswerSpec => []EmergencyIsGuarded
<1>1. Guarded => EmergencyIsGuarded
  BY DEF Guarded, EmergencyIsGuarded
<1> QED BY <1>1, InitGuarded, StepGuarded, Invariance, PTL DEF AnswerSpec
-----------------------------------------------------------------------------
(***************************************************************************)
(* What has been made of an answer and told of it, at each place of        *)
(* query().                                                                *)
(***************************************************************************)
ToldOf(q) ==
    /\ place[q] \in {"new", "enter", "classify", "search", "canned", "prompt"} =>
         made[q] = 0 /\ heard[q] = 0
    /\ place[q] \in {"built", "told"} => made[q] = 1 /\ heard[q] = 0
    /\ place[q] \in QueryPCs \ {"told", "ended", "reply", "leave", "done"} => q \notin whole
    /\ place[q] = "told" => q \in whole
    /\ place[q] = "generate" => heard[q] = made[q]
    /\ place[q] = "chunk" => made[q] = heard[q] + 1
    /\ place[q] = "ended" /\ ended[q] = "finished" =>
         heard[q] = made[q] /\ (made[q] > 0 => q \in whole)
    /\ place[q] = "reply" /\ ended[q] = "finished" => q \in whole /\ heard[q] = made[q]
    /\ place[q] \in {"leave", "done"} =>
         \/ result[q] = "ok" /\ q \in whole /\ heard[q] = made[q]
         \/ result[q] = "failed"
Telling == /\ made \in [Queries -> 0..MaxParts] /\ heard \in [Queries -> Nat]
           /\ whole \subseteq Queries
           /\ \A q \in Queries : ToldOf(q)

LEMMA InitTelling == AnswerInit => Telling
<1> SUFFICES ASSUME AnswerInit PROVE Telling
  OBVIOUS
<1>1. made \in [Queries -> 0..MaxParts] /\ heard \in [Queries -> Nat]
  BY LocalAnswerAssumption DEF AnswerInit
<1> QED BY <1>1 DEF AnswerInit, Telling, ToldOf, QueryPCs

LEMMA MadeWhole ==
    ASSUME NEW q \in Queries, whole' = whole \cup {q}
    PROVE  [p \in Queries |-> p \in whole'] = [[p \in Queries |-> p \in whole] EXCEPT ![q] = TRUE]
<1> DEFINE f == [p \in Queries |-> p \in whole']
           g == [[p \in Queries |-> p \in whole] EXCEPT ![q] = TRUE]
<1>1. ASSUME NEW p \in Queries PROVE f[p] = g[p]
  <2>1. CASE p = q
    BY <2>1
  <2>2. CASE p # q
    <3>1. (p \in whole') = (p \in whole)
      BY <2>2
    <3> QED BY <2>2, <3>1
  <2> QED BY <2>1, <2>2
<1> QED BY <1>1, Zenon

\* A step of query() keeps the account, and the abstract stream makes it too.
LEMMA AnsweringStreams ==
    ASSUME IInv, Telling, NEW q \in Queries, Answering(q)
    PROVE  Telling' /\ [Stream!SNext]_Stream!svars
<1> USE LocalAnswerAssumption
    DEF IInv, Domains, Telling, ToldOf, At, Go, Leave, modelVars, cancelVars, streamVars, QueryPCs
<1> DEFINE Kept == UNCHANGED <<made, whole, heard>> /\ \A p \in Queries : Status(p)' = Status(p)
<1>1. Kept => UNCHANGED Stream!svars
  BY DEF Stream!svars
<1>2. CASE Classify(q)
  <2>1. Telling'
    BY <1>2 DEF Classify, Decide, WithoutRetrieval
  <2>2. Kept
    BY <1>2 DEF Classify, Decide, WithoutRetrieval, Status
  <2> QED BY <1>1, <2>1, <2>2
<1>3. CASE Throw(q)
  <2>1. Telling'
    BY <1>3 DEF Throw
  <2>2. Kept
    BY <1>3 DEF Throw, Status
  <2> QED BY <1>1, <2>1, <2>2
<1>4. CASE \E evidence \in {"none", "weak", "strong"} : Search(q, evidence)
  <2>1. Telling'
    BY <1>4 DEF Search, Decide
  <2>2. Kept
    BY <1>4 DEF Search, Decide, Status
  <2> QED BY <1>1, <2>1, <2>2
<1>5. CASE StartRun(q)
  <2>1. Telling'
    BY <1>5 DEF StartRun
  <2>2. Kept
    BY <1>5 DEF StartRun, Status
  <2> QED BY <1>1, <2>1, <2>2
<1>6. CASE Conclude(q)
  <2>1. Telling'
    BY <1>6 DEF Conclude
  <2>2. Kept
    BY <1>6 DEF Conclude, Status
  <2> QED BY <1>1, <2>1, <2>2
<1>7. CASE Reply(q)
  <2>1. Telling'
    BY <1>7 DEF Reply
  <2>2. Kept
    BY <1>7 DEF Reply, Status
  <2> QED BY <1>1, <2>1, <2>2
<1>8. CASE Enter(q)
  <2>1. Telling'
    BY <1>8 DEF Enter
  <2>2. CASE active = NoQuery
    <3>1. Kept
      BY <1>8, <2>2 DEF Enter, Status
    <3> QED BY <1>1, <2>1, <3>1
  <2>3. CASE active # NoQuery
    <3>1. /\ Status(q) = "asked" /\ Status(q)' = "failed"
          /\ \A p \in Queries \ {q} : Status(p)' = Status(p)
          /\ UNCHANGED <<made, whole, heard>>
      BY <1>8, <2>3 DEF Enter, Status
    <3>2. [p \in Queries |-> Status(p)]' = [[p \in Queries |-> Status(p)] EXCEPT ![q] = "failed"]
      BY <3>1
    <3>3. Stream!Fail(q)
      BY <3>1, <3>2 DEF Stream!Fail
    <3> QED BY <2>1, <3>3 DEF Stream!SNext
  <2> QED BY <1>1, <2>1, <2>2, <2>3 DEF Stream!SNext
<1>9. CASE BuildAnswer(q)
  <2>1. Telling'
    BY <1>9 DEF BuildAnswer, Make
  <2>2. /\ Status(q) = "asked" /\ \A p \in Queries : Status(p)' = Status(p)
        /\ q \notin whole /\ made[q] < MaxParts /\ made' = [made EXCEPT ![q] = @ + 1]
        /\ UNCHANGED <<whole, heard>>
    BY <1>9 DEF BuildAnswer, Make, Status
  <2>3. Stream!Produce(q)
    BY <2>2, ZenonT(40) DEF Stream!Produce
  <2> QED BY <2>1, <2>3 DEF Stream!SNext
<1>10. CASE AnswerBuilt(q)
  <2>1. Telling'
    BY <1>10 DEF AnswerBuilt
  <2>2. /\ \A p \in Queries : Status(p)' = Status(p)
        /\ made[q] > 0 /\ whole' = whole \cup {q} /\ UNCHANGED <<made, heard>>
    BY <1>10 DEF AnswerBuilt, Status
  <2>3. Stream!Complete(q)
    <3>1. [p \in Queries |-> p \in whole]' = [[p \in Queries |-> p \in whole] EXCEPT ![q] = TRUE]
      BY <2>2, MadeWhole, Zenon
    <3> QED BY <2>2, <3>1 DEF Stream!Complete
  <2> QED BY <2>1, <2>3 DEF Stream!SNext
<1>11. CASE TellAnswer(q)
  <2>1. Telling'
    BY <1>11 DEF TellAnswer
  <2>2. Kept \/ Stream!Hear(q)
    BY <1>11 DEF TellAnswer, Status, Stream!Hear
  <2> QED BY <1>1, <2>1, <2>2 DEF Stream!SNext
<1>12. CASE Generate(q)
  <2>1. Telling'
    BY <1>12 DEF Generate, Make
  <2>2. Stream!Produce(q)
    BY <1>12 DEF Generate, Make, Status, Stream!Produce
  <2> QED BY <2>1, <2>2 DEF Stream!SNext
<1>13. CASE CallHandler(q)
  <2>1. Telling'
    BY <1>13 DEF CallHandler, End
  <2>2. Kept \/ Stream!Hear(q)
    BY <1>13 DEF CallHandler, End, Status, Stream!Hear
  <2> QED BY <1>1, <2>1, <2>2 DEF Stream!SNext
<1>14. CASE EndRun(q)
  <2>1. Telling'
    BY <1>14 DEF EndRun, End
  <2>2. \A p \in Queries : Status(p)' = Status(p)
    BY <1>14 DEF EndRun, End, Status
  <2>3. CASE whole' = whole
    <3>1. Kept
      BY <1>14, <2>2, <2>3 DEF EndRun
    <3> QED BY <1>1, <2>1, <3>1
  <2>4. CASE made[q] > 0 /\ whole' = whole \cup {q}
    <3>1. Stream!Complete(q)
      <4>1. [p \in Queries |-> p \in whole]' = [[p \in Queries |-> p \in whole] EXCEPT ![q] = TRUE]
        BY <2>4, MadeWhole, Zenon
      <4> QED BY <1>14, <2>2, <2>4, <4>1 DEF EndRun, Stream!Complete
    <3> QED BY <2>1, <3>1 DEF Stream!SNext
  <2>5. whole' = whole \/ (made[q] > 0 /\ whole' = whole \cup {q})
    BY <1>14 DEF EndRun
  <2> QED BY <1>1, <2>1, <2>3, <2>4, <2>5 DEF Stream!SNext
<1>15. CASE ClearActive(q)
  <2>1. Telling'
    BY <1>15 DEF ClearActive
  <2>2. Stream!Succeed(q) \/ Stream!Fail(q)
    BY <1>15, ZenonT(40) DEF ClearActive, Status, Stream!Succeed, Stream!Fail
  <2> QED BY <2>1, <2>2 DEF Stream!SNext
<1> QED
  BY <1>2, <1>3, <1>4, <1>5, <1>6, <1>7, <1>8, <1>9, <1>10, <1>11, <1>12, <1>13, <1>14, <1>15
  DEF Answering

LEMMA StepStreams ==
    ASSUME IInv, Telling, [AnswerNext]_answerVars
    PROVE  Telling' /\ [Stream!SNext]_Stream!svars
<1>1. ASSUME NEW q \in Queries, Query(q) PROVE Telling' /\ Stream!PutQuery(q)
  <2> USE DEF IInv, Domains, At, Go, streamVars, Query
  <2>1. Telling'
    BY <1>1 DEF Telling, ToldOf, QueryPCs
  <2>2. Stream!PutQuery(q)
    BY <1>1 DEF Status, Stream!PutQuery
  <2> QED BY <2>1, <2>2
<1>2. ASSUME NEW q \in Queries, Answering(q) PROVE Telling' /\ [Stream!SNext]_Stream!svars
  BY <1>2, AnsweringStreams
<1>3. CASE UNCHANGED queryVars
  BY <1>3 DEF queryVars, streamVars, Telling, ToldOf, Status, Stream!svars
<1> QED
  BY <1>1, <1>2, <1>3
  DEF AnswerNext, Cancel, Cancelling, LookRunning, RaiseFlag, Abort, answerVars, queryVars,
      Stream!SNext

(***************************************************************************)
(* Both local backends are streamed questions: what is made and what is    *)
(* heard advance together, and ok is returned only for an answer that was  *)
(* made to its end.                                                        *)
(***************************************************************************)
THEOREM Implements == AnswerSpec => ImplementsAnswerStream
<1>1. AnswerInit => Stream!SInit
  <2> SUFFICES ASSUME AnswerInit PROVE Stream!SInit
    OBVIOUS
  <2>1. \A q \in Queries : Status(q) = "new" /\ (q \in whole) = FALSE
    BY DEF AnswerInit, Status
  <2> QED BY <2>1, Zenon DEF AnswerInit, Stream!SInit
<1>2. IInv /\ Telling /\ [AnswerNext]_answerVars => Telling' /\ [Stream!SNext]_Stream!svars
  BY StepStreams
<1> QED
  BY <1>1, <1>2, InitTelling, Invariance, PTL DEF AnswerSpec, ImplementsAnswerStream, Stream!SSpec

-----------------------------------------------------------------------------
(***************************************************************************)
(* RetrieverRuntime: what load() has accepted belongs together.  Versions  *)
(* only grow, whatever their texts are.  The builder writes the vectors of *)
(* what it has read before the metadata that names it, so that vectors are *)
(* never older than the metadata beside them, and nothing that is read is  *)
(* newer than the knowledge base.  When the metadata has the text of the   *)
(* documents, the vectors are of a version from the one to the other.      *)
(***************************************************************************)
\* The files and the builder: vectors are as new as the metadata at least.
Published ==
    /\ meta # NoMeta => meta.print \in Versions /\ meta.of \in Versions
    /\ meta.of <= vectors /\ vectors <= chunks
Building ==
    /\ building # "idle" => read \in Versions /\ vectors <= read /\ read <= chunks
    /\ building \in {"sign", "publish"} => vectors = read
    /\ building = "publish" => print \in Versions

Late == {"activate", "loaded"}
SparseRead == config.backend # "dense" /\ loading \in (Steps \cup Late) \ {"sparse"}
DenseAt(steps) == loading \in steps \/ (loading \in Late /\ config.backend # "bm25")
OrderDone == DenseAt({"embedder"})
PrintDone == DenseAt({"order", "embedder"})
VectorsRead == DenseAt({"print", "order", "embedder"})
MetadataRead == DenseAt({"vectors", "print", "order", "embedder"})
DocumentsRead == DenseAt({"metadata", "vectors", "print", "order", "embedder"})

\* Everything of a load was read since its first reading, and the fingerprint is of the
\* present text unless that was edited since.
Since(version) == version \in Versions /\ first <= version /\ version <= chunks
ReadSince ==
    /\ loading \in Steps \cup {"loaded"} => first \in Versions /\ first <= chunks
    /\ SparseRead => Since(sparse)
    /\ DocumentsRead => Since(documents)
    /\ PrintDone /\ chunks = first => Text(index.print) = Text(chunks)

\* What the metadata and the vectors have to do with one another, and with the documents.
Matched ==
    /\ MetadataRead => index.print \in Versions /\ index.of \in Versions /\ index.of <= vectors
    /\ VectorsRead => /\ rows \in Versions /\ index.of <= rows /\ rows <= chunks
                      /\ Len(ChunkIds(rows)) = Len(ChunkIds(index.of))
    /\ OrderDone => ChunkIds(index.of) = ChunkIds(documents)

\* The retrievers that exist by now.
Base == CASE config.backend = "bm25" -> {"bm25"}
          [] config.backend = "dense" -> {"dense"}
          [] config.backend = "hybrid" -> {"bm25", "dense", "hybrid"}
Built ==
    /\ loading = "sparse" => parts = {} /\ config.backend # "dense"
    /\ loading = "documents" => parts = Base \ {"dense", "hybrid"}
    /\ loading \in Steps \ {"sparse", "activate"} => config.backend # "bm25"
    /\ loading \in {"metadata", "vectors", "print", "order", "embedder"}
          => parts = Base \ {"hybrid"}
    /\ loading = "activate" => parts = Base
    /\ loading = "loaded" =>
         /\ parts = Base \cup (IF config.filter THEN {"filter"} ELSE {})
         /\ activeRetriever = IF config.filter THEN "filter" ELSE config.backend

RInv == RuntimeTypeOK /\ Published /\ Building /\ ReadSince /\ Matched /\ Built

LEMMA RuntimeInitInv == RuntimeInit => RInv
<1> SUFFICES ASSUME RuntimeInit PROVE RInv
  OBVIOUS
<1> USE RetrieverRuntimeAssumption DEF RuntimeInit, None, NoMeta, Steps, Versions, chunks
<1>1. RuntimeTypeOK
  BY DEF RuntimeTypeOK
<1>2. Published /\ Building
  BY DEF Published, Building
<1>3. ReadSince /\ Matched /\ Built
  BY DEF ReadSince, Matched, Built, Late, SparseRead, DenseAt, OrderDone, PrintDone,
         VectorsRead, MetadataRead, DocumentsRead
<1> QED BY <1>1, <1>2, <1>3 DEF RInv

\* An edit leaves every version its text.
LEMMA EditInv == ASSUME RInv, Edit PROVE RInv'
<1>1. /\ Len(texts) \in Nat /\ 1 <= Len(texts) /\ Len(texts) <= MaxEdits
      /\ texts' \in Seq(Texts) /\ Len(texts') = Len(texts) + 1
      /\ \A v \in 1 .. Len(texts) : texts'[v] = texts[v]
  BY RetrieverRuntimeAssumption DEF RInv, RuntimeTypeOK, Edit, chunks
<1>2. UNCHANGED <<vectors, meta, building, read, print, builds, config, loading, parts,
                  activeRetriever, sparse, documents, index, rows, first, loads>>
  BY DEF Edit, builder, loader, content
<1>3. RuntimeTypeOK'
  <2>1. Versions \subseteq Versions' /\ Len(texts') \in 1 .. 1 + MaxEdits
    BY <1>1, RetrieverRuntimeAssumption DEF Versions
  <2> HIDE DEF Versions
  <2> QED BY <1>1, <1>2, <2>1 DEF RInv, RuntimeTypeOK
<1> USE DEF RInv, Versions, chunks
<1>4. Published' /\ Building'
  <2>1. vectors \in Int /\ read \in Int
    BY <1>1 DEF RuntimeTypeOK, None
  <2> QED BY <1>1, <1>2, <2>1 DEF Published, Building, NoMeta
<1> USE DEF Late, SparseRead, DenseAt, OrderDone, PrintDone, VectorsRead, MetadataRead,
            DocumentsRead
<1>5. ReadSince'
  BY <1>1, <1>2 DEF ReadSince, Since, Text, Steps
<1>6. Matched'
  <2>1. MetadataRead => index.print \in Versions' /\ index.of \in Versions'
                        /\ ChunkIds(index.of)' = ChunkIds(index.of)
    BY <1>1, <1>2 DEF Matched, ChunkIds, Text
  <2>2. VectorsRead => rows \in Versions' /\ rows <= chunks'
                       /\ ChunkIds(rows)' = ChunkIds(rows)
    BY <1>1, <1>2 DEF Matched, ChunkIds, Text
  <2>3. DocumentsRead => ChunkIds(documents)' = ChunkIds(documents)
    BY <1>1, <1>2 DEF ReadSince, Since, ChunkIds, Text
  <2> QED BY <1>2, <2>1, <2>2, <2>3 DEF Matched
<1>7. Built'
  BY <1>2 DEF Built, Base, Steps
<1> QED BY <1>3, <1>4, <1>5, <1>6, <1>7

\* Every other step leaves the knowledge base alone.
LEMMA OtherStepType ==
    ASSUME RInv, [RuntimeNext]_runtimeVars, ~Edit
    PROVE  /\ UNCHANGED texts /\ chunks' = chunks /\ Versions' = Versions
           /\ chunks \in Versions /\ Versions \subseteq Nat \ {0}
           /\ RuntimeTypeOK'
<1>1. UNCHANGED texts
  BY DEF RuntimeNext, runtimeVars, files, world, ReadChunks, Encode, WriteVectors, Sign,
         WriteMetadata, BuilderDies, Load, Fail, LoadSparse, LoadDocuments, ReadMetadata,
         ReadVectors, CheckFingerprint, CheckOrder, LoadEmbedder, Activate
<1>2. /\ chunks' = chunks /\ Versions' = Versions
      /\ chunks \in Versions /\ Versions \subseteq Nat \ {0}
  BY <1>1, RetrieverRuntimeAssumption DEF RInv, RuntimeTypeOK, Versions, chunks
<1> USE DEF RuntimeTypeOK, NoMeta, Steps, Backends, Loading, Then, files, builder, loader, world,
            content
<1>3. /\ RuntimeTypeOK /\ (building # "idle" => read \in Versions)
      /\ (building = "publish" => print \in Versions)
  BY DEF RInv, Building
<1>4. CASE ReadChunks
  BY <1>1, <1>2, <1>3, <1>4, RetrieverRuntimeAssumption DEF ReadChunks
<1>5. CASE Encode
  BY <1>1, <1>2, <1>3, <1>5 DEF Encode
<1>6. CASE WriteVectors
  BY <1>1, <1>2, <1>3, <1>6 DEF WriteVectors
<1>7. CASE Sign
  BY <1>1, <1>2, <1>3, <1>7 DEF Sign
<1>8. CASE WriteMetadata
  BY <1>1, <1>2, <1>3, <1>8 DEF WriteMetadata
<1>9. CASE BuilderDies
  BY <1>1, <1>2, <1>3, <1>9 DEF BuilderDies
<1>10. CASE Load
  BY <1>1, <1>2, <1>3, <1>10, RetrieverRuntimeAssumption DEF Load, Clear, Ready
<1>11. CASE Fail
  BY <1>1, <1>2, <1>3, <1>11 DEF Fail, Clear
<1>12. CASE LoadSparse
  BY <1>1, <1>2, <1>3, <1>12 DEF LoadSparse
<1>13. CASE LoadDocuments
  BY <1>1, <1>2, <1>3, <1>13 DEF LoadDocuments
<1>14. CASE ReadMetadata
  BY <1>1, <1>2, <1>3, <1>14 DEF ReadMetadata
<1>15. CASE ReadVectors
  BY <1>1, <1>2, <1>3, <1>15 DEF ReadVectors
<1>16. CASE CheckFingerprint
  BY <1>1, <1>2, <1>3, <1>16 DEF CheckFingerprint
<1>17. CASE CheckOrder
  BY <1>1, <1>2, <1>3, <1>17 DEF CheckOrder
<1>18. CASE LoadEmbedder
  BY <1>1, <1>2, <1>3, <1>18 DEF LoadEmbedder
<1>19. CASE Activate
  BY <1>1, <1>2, <1>3, <1>19 DEF Activate
<1>20. CASE UNCHANGED runtimeVars
  BY <1>1, <1>2, <1>3, <1>20 DEF runtimeVars
<1> QED
  BY <1>1, <1>2, <1>4, <1>5, <1>6, <1>7, <1>8, <1>9, <1>10, <1>11, <1>12, <1>13, <1>14,
         <1>15, <1>16, <1>17, <1>18, <1>19, <1>20 DEF RuntimeNext

\* The versions a file or a retriever holds are numbers.
LEMMA OtherStepNumbers ==
    ASSUME RInv, [RuntimeNext]_runtimeVars, ~Edit
    PROVE  {vectors, vectors', read, meta.of, index.of} \subseteq Int
<1>1. /\ vectors \in Versions \cup {None} /\ read \in Versions \cup {None}
      /\ meta.of \in Versions \cup {None} /\ index.of \in Versions \cup {None}
  BY DEF RInv, RuntimeTypeOK
<1>2. Versions \subseteq Nat /\ Versions' = Versions /\ vectors' \in Versions' \cup {None}
  BY OtherStepType DEF RuntimeTypeOK
<1>3. Versions \cup {None} \subseteq Int /\ Versions' \cup {None} \subseteq Int
  BY <1>2 DEF None
<1> QED BY <1>1, <1>2, <1>3

\* The files and the builder, which no step of load() touches.
LEMMA OtherStepFiles ==
    ASSUME RInv, [RuntimeNext]_runtimeVars, ~Edit
    PROVE  Published' /\ Building' /\ vectors <= vectors'
<1>1. /\ RuntimeTypeOK /\ Published /\ Building
      /\ UNCHANGED texts /\ chunks' = chunks /\ Versions' = Versions
      /\ chunks \in Versions /\ Versions \subseteq Nat \ {0}
      /\ {vectors, read, meta.of} \subseteq Int
  BY OtherStepType, OtherStepNumbers DEF RInv
<1> USE DEF Published, Building, NoMeta, None, files, loader
<1>2. CASE ReadChunks
  BY <1>1, <1>2 DEF ReadChunks
<1>3. CASE Encode
  BY <1>1, <1>3 DEF Encode
<1>4. CASE WriteVectors
  BY <1>1, <1>4 DEF WriteVectors
<1>5. CASE Sign
  BY <1>1, <1>5 DEF Sign
<1>6. CASE WriteMetadata
  BY <1>1, <1>6 DEF WriteMetadata
<1>7. CASE BuilderDies
  BY <1>1, <1>7 DEF BuilderDies
<1>8. CASE UNCHANGED world
  BY <1>1, <1>8 DEF world, files, builder
<1> QED
  BY <1>2, <1>3, <1>4, <1>5, <1>6, <1>7, <1>8 DEF RuntimeNext, runtimeVars, world, Load,
         Fail, LoadSparse, LoadDocuments, ReadMetadata, ReadVectors, CheckFingerprint, CheckOrder,
         LoadEmbedder, Activate

\* What load() has read, which no step of the builder touches.
LEMMA OtherStepLoad ==
    ASSUME RInv, [RuntimeNext]_runtimeVars, ~Edit
    PROVE  ReadSince' /\ Matched' /\ Built'
<1>1. /\ RuntimeTypeOK /\ ReadSince /\ Matched /\ Built
      /\ UNCHANGED texts /\ chunks' = chunks /\ Versions' = Versions
      /\ chunks \in Versions /\ Versions \subseteq Nat \ {0}
      /\ {vectors, vectors', index.of} \subseteq Int
      /\ vectors <= vectors' /\ vectors <= chunks
      /\ meta # NoMeta => meta.print \in Versions /\ meta.of \in Versions
      /\ meta.of <= vectors
  BY OtherStepType, OtherStepNumbers, OtherStepFiles DEF RInv, Published
<1> USE DEF Late, SparseRead, DenseAt, OrderDone, PrintDone, VectorsRead, MetadataRead,
            DocumentsRead, Base, Since, None, NoMeta, Steps, Loading, Then, content, world, files,
            Text, ChunkIds
<1>2. CASE Load
  <2>1. ReadSince'
    BY <1>1, <1>2 DEF Load, Clear, Ready, ReadSince
  <2>2. Matched'
    BY <1>1, <1>2 DEF Load, Clear, Ready, Matched
  <2>3. Built'
    BY <1>1, <1>2 DEF Load, Clear, Ready, Built, Backends, RuntimeTypeOK
  <2> QED BY <2>1, <2>2, <2>3
<1>3. CASE Fail
  <2>1. ReadSince'
    BY <1>1, <1>3 DEF Fail, Clear, ReadSince
  <2>2. Matched'
    BY <1>1, <1>3 DEF Fail, Clear, Matched
  <2>3. Built'
    BY <1>1, <1>3 DEF Fail, Clear, Built, Backends, RuntimeTypeOK
  <2> QED BY <2>1, <2>2, <2>3
<1>4. CASE LoadSparse
  <2>1. ReadSince'
    BY <1>1, <1>4 DEF LoadSparse, ReadSince
  <2>2. Matched'
    BY <1>1, <1>4 DEF LoadSparse, Matched
  <2>3. Built'
    BY <1>1, <1>4 DEF LoadSparse, Built, Backends, RuntimeTypeOK
  <2> QED BY <2>1, <2>2, <2>3
<1>5. CASE LoadDocuments
  <2>1. ReadSince'
    BY <1>1, <1>5 DEF LoadDocuments, ReadSince
  <2>2. Matched'
    BY <1>1, <1>5 DEF LoadDocuments, Matched
  <2>3. Built'
    BY <1>1, <1>5 DEF LoadDocuments, Built, Backends, RuntimeTypeOK
  <2> QED BY <2>1, <2>2, <2>3
<1>6. CASE ReadMetadata
  <2>1. ReadSince'
    BY <1>1, <1>6 DEF ReadMetadata, ReadSince
  <2>2. Matched'
    BY <1>1, <1>6 DEF ReadMetadata, Matched
  <2>3. Built'
    BY <1>1, <1>6 DEF ReadMetadata, Built, Backends, RuntimeTypeOK
  <2> QED BY <2>1, <2>2, <2>3
<1>7. CASE ReadVectors
  <2>1. ReadSince'
    BY <1>1, <1>7 DEF ReadVectors, ReadSince
  <2>2. Matched'
    <3>1. /\ rows' = vectors /\ vectors # None /\ vectors \in Versions /\ config' = config
          /\ index' = index /\ documents' = documents /\ vectors' = vectors
          /\ Len(ChunkIds(vectors)) = Len(ChunkIds(index.of))
          /\ loading = "vectors" /\ loading' = "print"
      BY <1>1, <1>7 DEF ReadVectors, RuntimeTypeOK
    <3>2. ChunkIds(rows)' = ChunkIds(vectors) /\ ChunkIds(index.of)' = ChunkIds(index.of)
      BY <1>1, <3>1
    <3> QED BY <1>1, <3>1, <3>2 DEF Matched
  <2>3. Built'
    BY <1>1, <1>7 DEF ReadVectors, Built, Backends, RuntimeTypeOK
  <2> QED BY <2>1, <2>2, <2>3
<1>8. CASE CheckFingerprint
  <2>1. ReadSince'
    BY <1>1, <1>8 DEF CheckFingerprint, ReadSince
  <2>2. Matched'
    BY <1>1, <1>8 DEF CheckFingerprint, Matched
  <2>3. Built'
    BY <1>1, <1>8 DEF CheckFingerprint, Built, Backends, RuntimeTypeOK
  <2> QED BY <2>1, <2>2, <2>3
<1>9. CASE CheckOrder
  <2>1. ReadSince'
    BY <1>1, <1>9 DEF CheckOrder, ReadSince
  <2>2. Matched'
    BY <1>1, <1>9 DEF CheckOrder, Matched
  <2>3. Built'
    BY <1>1, <1>9 DEF CheckOrder, Built, Backends, RuntimeTypeOK
  <2> QED BY <2>1, <2>2, <2>3
<1>10. CASE LoadEmbedder
  <2>1. ReadSince'
    BY <1>1, <1>10 DEF LoadEmbedder, ReadSince
  <2>2. Matched'
    BY <1>1, <1>10 DEF LoadEmbedder, Matched
  <2>3. Built'
    BY <1>1, <1>10 DEF LoadEmbedder, Built, Backends, RuntimeTypeOK
  <2> QED BY <2>1, <2>2, <2>3
<1>11. CASE Activate
  <2>1. ReadSince'
    BY <1>1, <1>11 DEF Activate, ReadSince
  <2>2. Matched'
    BY <1>1, <1>11 DEF Activate, Matched
  <2>3. Built'
    BY <1>1, <1>11 DEF Activate, Built, Backends, RuntimeTypeOK
  <2> QED BY <2>1, <2>2, <2>3
<1>12. CASE UNCHANGED loader
  <2>1. ReadSince'
    BY <1>1, <1>12 DEF loader, ReadSince
  <2>2. Matched'
    BY <1>1, <1>12 DEF loader, Matched
  <2>3. Built'
    BY <1>1, <1>12 DEF loader, Built
  <2> QED BY <2>1, <2>2, <2>3
<1> QED
  BY <1>2, <1>3, <1>4, <1>5, <1>6, <1>7, <1>8, <1>9, <1>10, <1>11, <1>12 DEF RuntimeNext,
         runtimeVars, loader, ReadChunks, Encode, WriteVectors, Sign, WriteMetadata, BuilderDies

\* Every step keeps the files and what was read of them in order.
LEMMA RuntimeStepInv == RInv /\ [RuntimeNext]_runtimeVars => RInv'
  BY EditInv, OtherStepType, OtherStepFiles, OtherStepLoad DEF RInv

(***************************************************************************)
(* An index that was built from the text of the documents has their        *)
(* vectors, or those of a version in between, after which that text was    *)
(* brought back.  Its ids are theirs, and so is its number of rows.        *)
(***************************************************************************)
THEOREM BelongsTogether == RuntimeSpec => []LoadedBelongsTogether
<1>1. RInv => LoadedBelongsTogether
  <2> SUFFICES ASSUME RInv, Loading("loaded") PROVE LoadedBelongsTogether
    BY DEF LoadedBelongsTogether
  <2>1. /\ activeRetriever \in parts /\ \A p \in parts : Uses(p) \subseteq parts
        /\ "dense" \in parts => config.backend # "bm25"
        /\ "hybrid" \in parts => config.backend = "hybrid"
    BY DEF RInv, RuntimeTypeOK, Built, Base, Backends, Loading, Uses
  <2>2. chunks \in Nat /\ Versions \subseteq Nat
    BY RetrieverRuntimeAssumption DEF RInv, RuntimeTypeOK, chunks, Versions
  <2>3. ASSUME config.backend # "bm25"
        PROVE  /\ ChunkIds(index.of) = ChunkIds(documents)
               /\ Len(ChunkIds(rows)) = Len(ChunkIds(documents))
               /\ chunks = first => Text(index.print) = Text(documents)
               /\ chunks = first /\ Text(index.print) = Text(index.of)
                    => Text(rows) = Text(documents) \/ BroughtBack
    <3>1. OrderDone /\ VectorsRead /\ MetadataRead /\ DocumentsRead /\ PrintDone
      BY <2>3 DEF Loading, Late, OrderDone, VectorsRead, MetadataRead, DocumentsRead, PrintDone,
                  DenseAt
    <3>2. /\ Since(documents) /\ index.of \in Versions /\ rows \in Versions
          /\ index.of <= rows /\ rows <= chunks
          /\ ChunkIds(index.of) = ChunkIds(documents)
          /\ Len(ChunkIds(rows)) = Len(ChunkIds(index.of))
          /\ chunks = first => Text(index.print) = Text(chunks)
      BY <3>1 DEF RInv, ReadSince, Matched
    <3>3. chunks = first => documents = chunks
      BY <2>2, <3>2 DEF Since
    <3>4. ASSUME chunks = first, Text(index.print) = Text(index.of), Text(rows) # Text(documents)
          PROVE  BroughtBack
      <4>1. rows # documents /\ rows # index.of /\ Text(index.of) = Text(documents)
        BY <3>2, <3>3, <3>4
      <4>2. index.of \in Nat /\ rows \in Nat /\ documents = chunks
        BY <2>2, <3>2, <3>3, <3>4
      <4>3. index.of < rows /\ rows < documents
        BY <2>2, <3>2, <4>1, <4>2
      <4> QED BY <4>1, <4>3 DEF BroughtBack
    <3> QED BY <3>2, <3>3, <3>4
  <2>4. ASSUME config.backend = "hybrid", chunks = first PROVE sparse = documents
    <3>1. Since(sparse) /\ Since(documents)
      BY <2>4 DEF RInv, ReadSince, SparseRead, DocumentsRead, DenseAt, Late, Loading
    <3> QED BY <2>2, <2>4, <3>1 DEF Since
  <2> QED BY <2>1, <2>3, <2>4 DEF LoadedBelongsTogether
<1> QED BY <1>1, RuntimeInitInv, RuntimeStepInv, PTL DEF RuntimeSpec

(***************************************************************************)
(* The type invariant of the loading of the retrievers.                    *)
(***************************************************************************)
THEOREM RuntimeTypeCorrect == RuntimeSpec => []RuntimeTypeOK
<1>1. RInv => RuntimeTypeOK
  BY DEF RInv
<1> QED BY <1>1, RuntimeInitInv, RuntimeStepInv, PTL DEF RuntimeSpec

-----------------------------------------------------------------------------
(***************************************************************************)
(* HybridSearch: a chunk that both retrievers prefer to another one is     *)
(* never returned behind it, nor left out for it.  Who is ahead in a list  *)
(* has the smaller place in it; resize() keeps with every chunk those that *)
(* are ahead of it; and the share of a smaller place is not smaller, so    *)
(* that the sums of reciprocal ranks keep the order of the places.         *)
(***************************************************************************)
IsList(list) == /\ list = [c \in DOMAIN list |-> list[c]]
                /\ DOMAIN list \subseteq Chunks /\ \A c \in DOMAIN list : list[c] \in Int

LEMMA RestrictIsList ==
    ASSUME NEW list, IsList(list), NEW S, S \subseteq DOMAIN list
    PROVE  /\ IsList(Restrict(list, S)) /\ DOMAIN Restrict(list, S) = S
           /\ \A c \in S : Restrict(list, S)[c] = list[c]
  BY DEF IsList, Restrict

\* Who is ahead of another has the smaller place: those ahead of it are ahead of both.
LEMMA Places ==
    ASSUME NEW list, IsList(list)
    PROVE  /\ \A c \in DOMAIN list : Position(list, c) \in 1 .. Cardinality(Chunks)
           /\ \A a, b \in DOMAIN list : Ahead(list, a, b) => Position(list, a) < Position(list, b)
<1> DEFINE Front(c) == {d \in DOMAIN list : Ahead(list, d, c)}
<1>1. IsFiniteSet(DOMAIN list) /\ Cardinality(DOMAIN list) <= Cardinality(Chunks)
      /\ Cardinality(Chunks) \in Nat /\ Cardinality(DOMAIN list) \in Nat
  BY FS_Subset, FS_CardinalityType, HybridSearchAssumption DEF IsList
<1>2. \A c \in DOMAIN list : IsFiniteSet(Front(c)) /\ Cardinality(Front(c)) \in Nat
  BY <1>1, FS_Subset, FS_CardinalityType
<1>3. ASSUME NEW c \in DOMAIN list PROVE Cardinality(Front(c)) < Cardinality(DOMAIN list)
  <2>1. c \notin Front(c)
    BY HybridSearchAssumption DEF Ahead, IsList
  <2>2. Front(c) \in SUBSET DOMAIN list /\ Front(c) # DOMAIN list
    BY <2>1
  <2> HIDE DEF Front
  <2>3. Cardinality(Front(c)) <= Cardinality(DOMAIN list)
        /\ (Cardinality(DOMAIN list) = Cardinality(Front(c)) => DOMAIN list = Front(c))
    BY <1>1, <2>2, FS_Subset
  <2>. QED  BY <1>1, <1>2, <2>2, <2>3
<1>4. ASSUME NEW a \in DOMAIN list, NEW b \in DOMAIN list, Ahead(list, a, b)
      PROVE  Cardinality(Front(a)) < Cardinality(Front(b))
  <2>1. Front(a) \subseteq Front(b)
    BY <1>4, HybridSearchAssumption DEF Ahead, IsList
  <2>2. a \in Front(b) /\ a \notin Front(a)
    BY <1>4, HybridSearchAssumption DEF Ahead, IsList
  <2>3. Front(a) \in SUBSET Front(b) /\ Front(a) # Front(b)
    BY <2>1, <2>2
  <2> HIDE DEF Front
  <2>4. Cardinality(Front(a)) <= Cardinality(Front(b))
        /\ (Cardinality(Front(b)) = Cardinality(Front(a)) => Front(b) = Front(a))
    BY <1>2, <2>3, FS_Subset
  <2>. QED  BY <1>2, <2>3, <2>4
<1>5. \A c : Position(list, c) = 1 + Cardinality(Front(c))
  BY DEF Position
<1> HIDE DEF Front
<1>. QED  BY <1>1, <1>2, <1>3, <1>4, <1>5

\* The cut of a list is a list, and it keeps what is ahead of anything it keeps.
LEMMA Cut ==
    ASSUME NEW list, IsList(list), NEW k \in Nat
    PROVE  /\ IsList(Top(list, k)) /\ DOMAIN Top(list, k) \subseteq DOMAIN list
           /\ \A c \in DOMAIN Top(list, k) : Top(list, k)[c] = list[c]
           /\ \A a \in DOMAIN list, b \in DOMAIN Top(list, k) :
                 Ahead(list, a, b) => a \in DOMAIN Top(list, k)
<1> DEFINE S == {c \in DOMAIN list : Position(list, c) <= k}
<1>1. /\ IsList(Top(list, k)) /\ DOMAIN Top(list, k) = S
      /\ \A c \in S : Top(list, k)[c] = list[c]
  BY RestrictIsList DEF Top
<1>2. ASSUME NEW a \in DOMAIN list, NEW b \in S, Ahead(list, a, b) PROVE a \in S
  BY <1>2, Places
<1>. QED  BY <1>1, <1>2

\* A place further ahead contributes more.
LEMMA Shares ==
    ASSUME NEW p \in 1 .. Cardinality(Chunks), NEW q \in 1 .. Cardinality(Chunks), p < q
    PROVE  /\ Scale \div (RrfK + p) \in Nat /\ Scale \div (RrfK + q) \in Nat
           /\ Scale \div (RrfK + p) > Scale \div (RrfK + q)
<1>0. Cardinality(Chunks) \in Nat
  BY FS_CardinalityType, HybridSearchAssumption
<1> DEFINE A == RrfK + p
           B == RrfK + q
           m == Scale \div A
           n == Scale \div B
<1>1. A \in Nat \ {0} /\ B \in Nat \ {0} /\ A < B /\ Scale \in Nat \ {0}
  BY <1>0, HybridSearchAssumption
<1>2. Scale % A = 0 /\ Scale % B = 0
  BY HybridSearchAssumption
<1> HIDE DEF A, B
<1>3. m \in Nat /\ Scale = A * m
  BY <1>1, <1>2
<1>4. n \in Nat /\ Scale = B * n
  BY <1>1, <1>2
<1> HIDE DEF m, n
<1>5. m > n
  <2>1. SUFFICES ASSUME m <= n PROVE FALSE
    BY <1>3, <1>4
  <2>2. n # 0
    BY <1>1, <1>4
  <2>3. A * m <= A * n
    BY <1>1, <1>3, <1>4, <2>1
  <2>4. A * n < B * n
    BY <1>1, <1>4, <2>2
  <2>5. A * m \in Int /\ A * n \in Int /\ B * n \in Int
    BY <1>1, <1>3, <1>4
  <2>. QED  BY <1>3, <1>4, <2>3, <2>4, <2>5
<1>. QED  BY <1>3, <1>4, <1>5 DEF m, n, A, B
\* What a retriever returns: its best chunks, by their scores.
Ranking(list, score(_)) ==
    /\ IsList(list) /\ \A c \in DOMAIN list : list[c] = score(c)
    /\ \A a \in Chunks, b \in DOMAIN list : Before(a, b, score) => a \in DOMAIN list

Sparse(c) == scores[c].sparse
Dense(c) == scores[c].dense

\* The invariant: both lists are rankings until they are fused, and then the result is
\* closed under what both retrievers prefer.
Asking == step # "ask" => scores \in Scores /\ setting \in Settings
Ranked == step \in {"fuse", "filter", "done"} =>
              Ranking(sparseResults, Sparse) /\ Ranking(denseResults, Dense)
Fused == step \in {"filter", "done"} =>
    /\ IsList(results) /\ DOMAIN results \subseteq DOMAIN sparseResults \cup DOMAIN denseResults
    /\ \A a, b \in Chunks : Better(a, b) /\ b \in DOMAIN results /\ results[b] # 0
                                => a \in DOMAIN results /\ Ahead(results, a, b)
SearchInv == Asking /\ Ranked /\ Fused

LEMMA ScoreTypes ==
    ASSUME scores \in Scores
    PROVE  \A c \in Chunks : Sparse(c) \in Int /\ Dense(c) \in Int
  BY HybridSearchAssumption DEF Scores, Sparse, Dense

LEMMA AskedFor ==
    ASSUME setting \in Settings
    PROVE  /\ setting.topK \in Nat /\ Asked \in Nat /\ Candidates \in Nat
           /\ setting.sparseWeight \in Nat /\ setting.denseWeight \in Nat
  BY HybridSearchAssumption DEF Asked, Candidates, Larger

LEMMA SparseRanking ==
    ASSUME scores \in Scores, setting \in Settings
    PROVE  Ranking(SparseList, Sparse)
<1> DEFINE found == {d \in Chunks : scores[d].sparse > 0}
           all == [c \in found |-> scores[c].sparse]
<1>1. IsList(all) /\ DOMAIN all = found /\ \A c \in found : all[c] = Sparse(c)
  BY ScoreTypes DEF IsList, Sparse
<1>2. ASSUME NEW a \in Chunks, NEW b \in found, Before(a, b, Sparse)
      PROVE  a \in found /\ Ahead(all, a, b)
  BY <1>2, <1>1, ScoreTypes DEF Before, Sparse, Ahead
<1>3. SparseList = Top(all, Candidates)
  BY DEF SparseList
<1> HIDE DEF all, found
<1>4. /\ IsList(SparseList) /\ DOMAIN SparseList \subseteq found
      /\ \A c \in DOMAIN SparseList : SparseList[c] = Sparse(c)
      /\ \A a \in found, b \in DOMAIN SparseList : Ahead(all, a, b) => a \in DOMAIN SparseList
  BY <1>1, <1>3, Cut, AskedFor
<1>. QED  BY <1>2, <1>4 DEF Ranking

LEMMA DenseRanking ==
    ASSUME scores \in Scores, setting \in Settings
    PROVE  Ranking(DenseList, Dense)
<1> DEFINE all == [c \in Chunks |-> scores[c].dense]
           hits == Top(all, Candidates)
           strong == {c \in DOMAIN hits : hits[c] >= MinimumSimilarity}
<1>1. IsList(all) /\ DOMAIN all = Chunks /\ \A c \in Chunks : all[c] = Dense(c)
  BY ScoreTypes DEF IsList, Dense
<1>2. ASSUME NEW a \in Chunks, NEW b \in Chunks, Before(a, b, Dense)
      PROVE  Ahead(all, a, b)
  BY <1>2, <1>1, ScoreTypes DEF Before, Dense, Ahead
<1>3. DenseList = Restrict(hits, strong)
  BY DEF DenseList
<1> HIDE DEF all
<1>4. /\ IsList(hits) /\ DOMAIN hits \subseteq Chunks
      /\ \A c \in DOMAIN hits : hits[c] = Dense(c)
      /\ \A a \in Chunks, b \in DOMAIN hits : Ahead(all, a, b) => a \in DOMAIN hits
  BY <1>1, Cut, AskedFor
<1> HIDE DEF hits
<1>5. ASSUME NEW a \in Chunks, NEW b \in strong, Before(a, b, Dense) PROVE a \in strong
  <2>1. a \in DOMAIN hits /\ Dense(a) >= Dense(b)
    BY <1>2, <1>4, <1>5, ScoreTypes DEF Before
  <2>. QED  BY <2>1, <1>4, <1>5, ScoreTypes, HybridSearchAssumption
<1>6. /\ IsList(DenseList) /\ DOMAIN DenseList = strong
      /\ \A c \in strong : DenseList[c] = hits[c]
  BY <1>3, <1>4, RestrictIsList
<1>. QED  BY <1>4, <1>5, <1>6 DEF Ranking

LEMMA NothingRanks == IsList(Nothing) /\ DOMAIN Nothing = {}
  BY DEF Nothing, IsList

LEMMA Gain ==
    ASSUME NEW list, IsList(list), NEW weight \in Nat, NEW c \in Chunks
    PROVE  Contribution(list, weight, c) \in Nat
<1>1. CASE c \in DOMAIN list
  <2>1. RrfK + Position(list, c) \in Nat \ {0}
    BY <1>1, Places, FS_CardinalityType, HybridSearchAssumption
  <2>2. Scale \div (RrfK + Position(list, c)) \in Nat
    BY <2>1, HybridSearchAssumption
  <2> DEFINE part == Scale \div (RrfK + Position(list, c))
  <2> HIDE DEF part
  <2>3. weight * part \in Nat
    BY <2>2 DEF part
  <2>. QED  BY <1>1, <2>3 DEF Contribution, part
<1>. QED  BY <1>1 DEF Contribution

\* What is better in a list gets at least as much from it, and more if there is anything to get.
LEMMA Gains ==
    ASSUME NEW list, IsList(list), NEW weight \in Nat, NEW a \in Chunks, NEW b \in Chunks,
           b \in DOMAIN list => a \in DOMAIN list /\ Ahead(list, a, b)
    PROVE  /\ Contribution(list, weight, a) >= Contribution(list, weight, b)
           /\ Contribution(list, weight, b) # 0
                 => Contribution(list, weight, a) > Contribution(list, weight, b)
<1>1. CASE b \notin DOMAIN list
  BY <1>1, Gain DEF Contribution
<1>2. CASE b \in DOMAIN list
  <2> DEFINE part(c) == Scale \div (RrfK + Position(list, c))
  <2>1. a \in DOMAIN list /\ part(a) \in Nat /\ part(b) \in Nat /\ part(a) > part(b)
    BY <1>2, Places, Shares
  <2>2. Contribution(list, weight, a) = weight * part(a)
        /\ Contribution(list, weight, b) = weight * part(b)
    BY <1>2, <2>1 DEF Contribution
  <2> HIDE DEF part
  <2>3. weight * part(a) \in Nat /\ weight * part(b) \in Nat /\ weight * part(a) >= weight * part(b)
    BY <2>1
  <2>4. weight * part(b) # 0 => weight * part(a) > weight * part(b)
    BY <2>1
  <2>. QED  BY <2>2, <2>3, <2>4
<1>. QED  BY <1>1, <1>2

\* A ranked list has what is better ahead.
LEMMA BetterAhead ==
    ASSUME Asking, Ranked, step \in {"fuse", "filter", "done"},
           NEW a \in Chunks, NEW b \in Chunks, Better(a, b)
    PROVE  /\ b \in DOMAIN sparseResults => /\ a \in DOMAIN sparseResults
                                            /\ Ahead(sparseResults, a, b)
           /\ b \in DOMAIN denseResults => /\ a \in DOMAIN denseResults
                                           /\ Ahead(denseResults, a, b)
<1>1. Before(a, b, Sparse) /\ Before(a, b, Dense)
  BY DEF Better, Before, Sparse, Dense
<1>. QED  BY <1>1 DEF Ranked, Ranking, Before, Ahead

LEMMA Fusing == ASSUME SearchInv, Fuse PROVE Fused'
<1> DEFINE S == DOMAIN sparseResults \cup DOMAIN denseResults
           all == [c \in S |-> FinalScore(c)]
<1>1. /\ step = "fuse" /\ scores \in Scores /\ setting \in Settings
      /\ IsList(sparseResults) /\ IsList(denseResults)
      /\ results' = Top(all, Asked)
      /\ UNCHANGED <<scores, setting, sparseResults, denseResults>>
  BY DEF Fuse, SearchInv, Asking, Ranked, Ranking
<1>2. S \subseteq Chunks
  BY <1>1 DEF IsList
<1>3. setting.sparseWeight \in Nat /\ setting.denseWeight \in Nat /\ Asked \in Nat
  BY <1>1, AskedFor
<1>4. \A c \in Chunks : /\ Contribution(sparseResults, setting.sparseWeight, c) \in Nat
                        /\ Contribution(denseResults, setting.denseWeight, c) \in Nat
  BY <1>1, <1>3, Gain
<1>5. \A c \in Chunks : FinalScore(c) \in Nat
  BY <1>4 DEF FinalScore
<1>6. IsList(all) /\ DOMAIN all = S /\ \A c \in S : all[c] = FinalScore(c)
  BY <1>2, <1>5 DEF IsList
<1>7. ASSUME NEW a \in Chunks, NEW b \in S, Better(a, b), FinalScore(b) # 0
      PROVE  a \in S /\ Ahead(all, a, b)
  <2> DEFINE sa == Contribution(sparseResults, setting.sparseWeight, a)
             sb == Contribution(sparseResults, setting.sparseWeight, b)
             da == Contribution(denseResults, setting.denseWeight, a)
             db == Contribution(denseResults, setting.denseWeight, b)
  <2>1. /\ b \in DOMAIN sparseResults => a \in DOMAIN sparseResults /\ Ahead(sparseResults, a, b)
        /\ b \in DOMAIN denseResults => a \in DOMAIN denseResults /\ Ahead(denseResults, a, b)
    BY <1>1, <1>2, <1>7, BetterAhead DEF SearchInv
  <2>2. sa >= sb /\ (sb # 0 => sa > sb)
    BY <1>1, <1>2, <1>3, <2>1, Gains
  <2>3. da >= db /\ (db # 0 => da > db)
    BY <1>1, <1>2, <1>3, <2>1, Gains
  <2>4. {sa, sb, da, db} \subseteq Nat /\ FinalScore(a) = sa + da /\ FinalScore(b) = sb + db
    BY <1>2, <1>4 DEF FinalScore
  <2> HIDE DEF sa, sb, da, db
  <2>5. FinalScore(a) > FinalScore(b)
    BY <1>7, <2>2, <2>3, <2>4
  <2>6. a \in S
    BY <1>2, <2>1
  <2>. QED  BY <1>6, <2>5, <2>6 DEF Ahead
<1> HIDE DEF all, S
<1>8. /\ IsList(Top(all, Asked)) /\ DOMAIN Top(all, Asked) \subseteq S
      /\ \A c \in DOMAIN Top(all, Asked) : Top(all, Asked)[c] = all[c]
      /\ \A a \in S, b \in DOMAIN Top(all, Asked) : Ahead(all, a, b) => a \in DOMAIN Top(all, Asked)
  BY <1>3, <1>6, Cut
<1>9. ASSUME NEW a \in Chunks, NEW b \in Chunks, Better(a, b)',
            b \in DOMAIN results', results'[b] # 0
      PROVE  a \in DOMAIN results' /\ Ahead(results, a, b)'
  <2>1. Better(a, b) /\ b \in S /\ FinalScore(b) # 0
    BY <1>1, <1>6, <1>8, <1>9 DEF Better, Before
  <2>2. a \in S /\ Ahead(all, a, b)
    BY <1>7, <2>1
  <2>. QED  BY <1>1, <1>8, <1>9, <2>2 DEF Ahead
<1>10. S = DOMAIN sparseResults' \cup DOMAIN denseResults'
  BY <1>1 DEF S
<1>. QED  BY <1>1, <1>8, <1>9, <1>10 DEF Fused

\* The filter keeps what is better than anything it keeps.
LEMMA Filtering == ASSUME SearchInv, Filter PROVE Fused'
<1> DEFINE kept == IF setting.filter
                   THEN Restrict(results, {c \in DOMAIN results : Relevant(c)}) ELSE results
<1>1. /\ step = "filter" /\ scores \in Scores /\ setting \in Settings
      /\ IsList(results) /\ Ranking(sparseResults, Sparse) /\ Ranking(denseResults, Dense)
      /\ results' = Top(kept, setting.topK) /\ setting.topK \in Nat
      /\ UNCHANGED <<scores, setting, sparseResults, denseResults>>
  BY AskedFor DEF Filter, SearchInv, Asking, Ranked, Fused
<1>2. ASSUME NEW a \in Chunks, NEW b \in Chunks, Better(a, b), Relevant(b) PROVE Relevant(a)
  <2>1. Sparse(a) >= Sparse(b) /\ Dense(a) >= Dense(b)
    BY <1>1, <1>2, ScoreTypes DEF Better, Before, Sparse, Dense
  <2>2. /\ b \in DOMAIN sparseResults => a \in DOMAIN sparseResults
        /\ b \in DOMAIN denseResults => a \in DOMAIN denseResults
    BY <1>1, <1>2, BetterAhead DEF SearchInv
  <2>3. /\ \A c \in DOMAIN sparseResults : sparseResults[c] = Sparse(c)
        /\ \A c \in DOMAIN denseResults : denseResults[c] = Dense(c)
    BY <1>1 DEF Ranking
  <2>. QED  BY <1>1, <1>2, <2>1, <2>2, <2>3, ScoreTypes, HybridSearchAssumption DEF Relevant
<1>3. /\ IsList(kept) /\ DOMAIN kept \subseteq DOMAIN results
      /\ \A c \in DOMAIN kept : kept[c] = results[c] /\ (setting.filter => Relevant(c))
      /\ \A c \in DOMAIN results : Relevant(c) \/ ~setting.filter => c \in DOMAIN kept
  BY <1>1, RestrictIsList
<1> HIDE DEF kept
<1>4. DOMAIN results \subseteq DOMAIN sparseResults \cup DOMAIN denseResults
  BY <1>1 DEF SearchInv, Fused
<1>5. /\ IsList(Top(kept, setting.topK)) /\ DOMAIN Top(kept, setting.topK) \subseteq DOMAIN kept
      /\ \A c \in DOMAIN Top(kept, setting.topK) : Top(kept, setting.topK)[c] = kept[c]
      /\ \A a \in DOMAIN kept, b \in DOMAIN Top(kept, setting.topK) :
            Ahead(kept, a, b) => a \in DOMAIN Top(kept, setting.topK)
  BY <1>1, <1>3, Cut
<1>6. ASSUME NEW a \in Chunks, NEW b \in Chunks, Better(a, b)',
            b \in DOMAIN results', results'[b] # 0
      PROVE  a \in DOMAIN results' /\ Ahead(results, a, b)'
  <2>1. Better(a, b) /\ b \in DOMAIN kept /\ results[b] # 0
    BY <1>1, <1>3, <1>5, <1>6 DEF Better, Before
  <2>2. a \in DOMAIN results /\ Ahead(results, a, b)
    BY <1>1, <1>3, <2>1 DEF SearchInv, Fused
  <2>3. a \in DOMAIN kept /\ Ahead(kept, a, b)
    BY <1>2, <1>3, <2>1, <2>2 DEF Ahead
  <2>. QED  BY <1>1, <1>5, <1>6, <2>3 DEF Ahead
<1>. QED  BY <1>1, <1>3, <1>4, <1>5, <1>6 DEF Fused

LEMMA SearchStep == ASSUME SearchInv, [SearchNext]_searchVars PROVE SearchInv'
<1>1. CASE Ask
  BY <1>1 DEF Ask, SearchInv, Asking, Ranked, Fused
<1>2. CASE Rank \/ RankWithoutEmbedding
  <2>1. /\ step = "rank" /\ step' = "fuse" /\ scores \in Scores /\ setting \in Settings
        /\ UNCHANGED <<scores, setting>>
        /\ sparseResults' = SparseList /\ denseResults' \in {DenseList, Nothing}
    BY <1>2 DEF Rank, RankWithoutEmbedding, SearchInv, Asking
  <2>2. Ranking(sparseResults, Sparse)'
    BY <2>1, SparseRanking DEF Ranking, Sparse, Before
  <2>3. Ranking(denseResults, Dense)'
    BY <2>1, DenseRanking, NothingRanks DEF Ranking, Dense, Before
  <2>. QED  BY <2>1, <2>2, <2>3 DEF SearchInv, Asking, Ranked, Fused
<1>3. CASE Fuse \/ Filter
  <2>1. Asking' /\ Ranked'
    BY <1>3 DEF Fuse, Filter, SearchInv, Asking, Ranked, Ranking, Sparse, Dense, Before
  <2>. QED  BY <1>3, <2>1, Fusing, Filtering DEF SearchInv
<1>4. CASE UNCHANGED searchVars
  BY <1>4 DEF searchVars, SearchInv, Asking, Ranked, Fused, Ranking, Sparse, Dense, Before,
     Better, Ahead
<1>. QED  BY <1>1, <1>2, <1>3, <1>4 DEF SearchNext

(***************************************************************************)
(* Whatever the scores, the weights and the bounds: a chunk that both      *)
(* retrievers prefer is returned whenever the worse one is, and before it, *)
(* unless no retriever with a weight found the worse one.                  *)
(***************************************************************************)
THEOREM BetterFirst == SearchSpec => []BetterComesFirst
<1>1. SearchInit => SearchInv
  BY DEF SearchInit, SearchInv, Asking, Ranked, Fused
<1>2. SearchInv => BetterComesFirst
  BY DEF SearchInv, Fused, BetterComesFirst
<1>. QED  BY <1>1, <1>2, SearchStep, PTL DEF SearchSpec
-----------------------------------------------------------------------------
(***************************************************************************)
(* StreamingSentenceBuffer: what leaves does not depend on how the text    *)
(* arrives.  Two delimiters in a text never overlap, because none is part  *)
(* of another or begins with what another ends with.  So a byte that       *)
(* arrives changes no cut before it, and what is in the buffer is cut as   *)
(* the whole text is.                                                      *)
(***************************************************************************)
\* The least number principle, from the library's theorem that < is well founded.
LEMMA LeastNumber ==
    ASSUME NEW T \in SUBSET Nat, T # {}
    PROVE  \E x \in T : \A y \in T : x <= y
<1> DEFINE R == {ss \in Nat \X Nat : ss[1] < ss[2]}
<1>1. IsWellFoundedOn(R, Nat)
  BY NatLessThanWellFounded DEF OpToRel
<1>2. \E x \in T : \A y \in T : ~ (<<y, x>> \in R)
  <2> HIDE DEF R
  <2>. QED BY <1>1, WFMin
<1>3. PICK x \in T : \A y \in T : ~ (<<y, x>> \in R)
  BY <1>2
<1>4. ASSUME NEW y \in T PROVE x <= y
  <2>1. <<y, x>> \notin R /\ x \in Nat /\ y \in Nat
    BY <1>3
  <2>. QED  BY <2>1
<1>. QED BY <1>4

LEMMA MinIsLeast ==
    ASSUME NEW T \in SUBSET Nat, T # {}
    PROVE  Min(T) \in T /\ \A y \in T : Min(T) <= y
  BY LeastNumber DEF Min

LEMMA MaxIsGreatest ==
    ASSUME NEW T \in SUBSET Nat, T # {}, NEW n \in Nat, \A y \in T : y <= n
    PROVE  Max(T) \in T /\ \A y \in T : Max(T) >= y
<1> DEFINE U == {n - y : y \in T}
<1>1. U \in SUBSET Nat /\ U # {}
  <2>1. \A y \in T : n - y \in Nat
    OBVIOUS
  <2>. QED  BY <2>1
<1>2. PICK x \in U : \A y \in U : x <= y
  BY <1>1, LeastNumber
<1>3. PICK m \in T : x = n - m
  BY <1>2
<1>4. \A y \in T : m >= y
  <2> SUFFICES ASSUME NEW y \in T PROVE m >= y
    OBVIOUS
  <2>1. n - y \in U
    OBVIOUS
  <2>2. n - m <= n - y
    BY <1>2, <1>3, <2>1
  <2>. QED  BY <2>2
<1>5. \E z \in T : \A y \in T : z >= y
  BY <1>4
<1>. QED  BY <1>5 DEF Max

\* Parts of a text, by their bytes.
LEMMA PartIs ==
    ASSUME NEW s \in Seq(Bytes), NEW i \in 1 .. Len(s) + 1, NEW j \in 0 .. Len(s)
    PROVE  /\ SubSeq(s, i, j) \in Seq(Bytes)
           /\ Len(SubSeq(s, i, j)) = IF i <= j THEN j - i + 1 ELSE 0
           /\ \A k \in 1 .. Len(SubSeq(s, i, j)) : SubSeq(s, i, j)[k] = s[i + k - 1]
<1>1. \A k \in i .. j : s[k] \in Bytes
  OBVIOUS
<1>. QED  BY <1>1

LEMMA SameText ==
    ASSUME NEW s \in Seq(Bytes), NEW t \in Seq(Bytes), Len(s) = Len(t),
           \A k \in 1 .. Len(s) : s[k] = t[k]
    PROVE  s = t
<1>1. s = [k \in 1 .. Len(s) |-> s[k]] /\ t = [k \in 1 .. Len(t) |-> t[k]]
  OBVIOUS
<1>. QED  BY <1>1

LEMMA PartOfPart ==
    ASSUME NEW s \in Seq(Bytes), NEW i \in 1 .. Len(s) + 1, NEW j \in 0 .. Len(s),
           NEW d, d = SubSeq(s, i, j), NEW m \in 1 .. Len(d) + 1, NEW n \in 0 .. Len(d),
           NEW a \in Int, NEW b \in Int, a = i + m - 1, b = i + n - 1
    PROVE  SubSeq(d, m, n) = SubSeq(s, a, b)
<1>1. /\ d \in Seq(Bytes) /\ Len(d) = IF i <= j THEN j - i + 1 ELSE 0
      /\ \A k \in 1 .. Len(d) : d[k] = s[i + k - 1]
  BY PartIs
<1>2. a \in 1 .. Len(s) + 1 /\ b \in 0 .. Len(s)
  BY <1>1
<1>3. /\ SubSeq(d, m, n) \in Seq(Bytes) /\ Len(SubSeq(d, m, n)) = IF m <= n THEN n - m + 1 ELSE 0
      /\ \A k \in 1 .. Len(SubSeq(d, m, n)) : SubSeq(d, m, n)[k] = d[m + k - 1]
  BY <1>1, PartIs
<1>4. /\ SubSeq(s, a, b) \in Seq(Bytes) /\ Len(SubSeq(s, a, b)) = IF a <= b THEN b - a + 1 ELSE 0
      /\ \A k \in 1 .. Len(SubSeq(s, a, b)) : SubSeq(s, a, b)[k] = s[a + k - 1]
  BY <1>2, PartIs
<1>5. Len(SubSeq(d, m, n)) = Len(SubSeq(s, a, b))
  BY <1>3, <1>4
<1>6. ASSUME NEW k \in 1 .. Len(SubSeq(d, m, n)) PROVE SubSeq(d, m, n)[k] = SubSeq(s, a, b)[k]
  <2>1. m + k - 1 \in 1 .. Len(d)
    BY <1>3
  <2>3. d[m + k - 1] = s[i + (m + k - 1) - 1]
    BY <1>1, <2>1
  <2>2. i + (m + k - 1) - 1 = a + k - 1
    OBVIOUS
  <2>. QED  BY <1>3, <1>4, <1>5, <2>2, <2>3
<1>. QED  BY <1>3, <1>4, <1>5, <1>6, SameText

LEMMA PartOfBeginning ==
    ASSUME NEW s \in Seq(Bytes), NEW d \in Seq(Bytes),
           NEW i \in 1 .. Len(s) + 1, NEW j \in 0 .. Len(s)
    PROVE  SubSeq(s \o d, i, j) = SubSeq(s, i, j)
<1>1. /\ s \o d \in Seq(Bytes) /\ Len(s \o d) = Len(s) + Len(d)
      /\ \A k \in 1 .. Len(s) : (s \o d)[k] = s[k]
  OBVIOUS
<1>2. /\ SubSeq(s, i, j) \in Seq(Bytes) /\ SubSeq(s \o d, i, j) \in Seq(Bytes)
      /\ Len(SubSeq(s, i, j)) = Len(SubSeq(s \o d, i, j))
  BY <1>1, PartIs
<1>3. ASSUME NEW k \in 1 .. Len(SubSeq(s, i, j)) PROVE SubSeq(s, i, j)[k] = SubSeq(s \o d, i, j)[k]
  <2>1. SubSeq(s, i, j)[k] = s[i + k - 1] /\ SubSeq(s \o d, i, j)[k] = (s \o d)[i + k - 1]
    BY <1>1, <1>2, PartIs
  <2>2. i + k - 1 \in 1 .. Len(s)
    BY PartIs
  <2>. QED  BY <1>1, <2>1, <2>2
<1>. QED  BY <1>2, <1>3, SameText

LEMMA Together ==
    ASSUME NEW s \in Seq(Bytes), NEW d \in Seq(Bytes)
    PROVE  /\ s \o d \in Seq(Bytes) /\ Len(s \o d) = Len(s) + Len(d)
           /\ Len(s) \in Nat /\ Len(d) \in Nat
           /\ \A k \in 1 .. Len(s) : (s \o d)[k] = s[k]
           /\ \A k \in 1 .. Len(d) : (s \o d)[Len(s) + k] = d[k]
  OBVIOUS

LEMMA BoundaryIs ==
    ASSUME NEW text \in Seq(Bytes), NEW b \in Boundaries(text)
    PROVE  /\ b = <<b[1], b[2]>> /\ b[1] \in 1 .. Len(text) /\ b[2] \in 1 .. Len(text)
           /\ b[1] <= b[2] /\ SubSeq(text, b[1], b[2]) \in Delimiters
<1>1. /\ b = <<b[1], b[2]>> /\ b[1] \in 1 .. Len(text) /\ b[2] \in 1 .. Len(text)
      /\ SubSeq(text, b[1], b[2]) \in Delimiters
  BY DEF Boundaries
<1>2. SubSeq(text, b[1], b[2]) # <<>>
  BY <1>1, StreamingSentenceBufferAssumption
<1>3. b[1] <= b[2]
  <2>1. SUFFICES ASSUME b[1] > b[2] PROVE SubSeq(text, b[1], b[2]) = <<>>
    BY <1>1, <1>2
  <2>2. SubSeq(text, b[1], b[2]) \in Seq(Bytes) /\ Len(SubSeq(text, b[1], b[2])) = 0
    BY <1>1, <2>1, PartIs
  <2>. QED  BY <2>2
<1>. QED  BY <1>1, <1>3

\* Two delimiters in a text do not overlap.
LEMMA Overlap ==
    ASSUME NEW text \in Seq(Bytes), NEW b1 \in 1 .. Len(text), NEW b2 \in 1 .. Len(text),
           NEW c1 \in 1 .. Len(text), NEW c2 \in 1 .. Len(text), b1 <= c1, c1 <= b2, c1 <= c2,
           SubSeq(text, b1, b2) \in Delimiters, SubSeq(text, c1, c2) \in Delimiters
    PROVE  b1 = c1 /\ b2 = c2
<1>0. PICK d \in Delimiters, e \in Delimiters :
          d = SubSeq(text, b1, b2) /\ e = SubSeq(text, c1, c2)
  OBVIOUS
<1>1. /\ Len(d) = b2 - b1 + 1 /\ Len(e) = c2 - c1 + 1
      /\ b1 \in 1 .. Len(text) + 1 /\ b2 \in 0 .. Len(text)
      /\ c1 \in 1 .. Len(text) + 1 /\ c2 \in 0 .. Len(text)
  BY <1>0, PartIs
<1>2. CASE c2 <= b2
  <2>1. PICK m \in 1 .. Len(d), n \in 1 .. Len(d) : m = c1 - b1 + 1 /\ n = c2 - b1 + 1
    BY <1>1, <1>2
  <2>2. SubSeq(d, m, n) = e
    <3>1. c1 = b1 + m - 1 /\ c2 = b1 + n - 1
      BY <2>1
    <3>2. m \in 1 .. Len(d) + 1 /\ n \in 0 .. Len(d)
      BY <2>1
    <3>. QED  BY <1>0, <1>1, <3>1, <3>2, PartOfPart
  <2>3. e = d
    <3>1. n \in 0 .. Len(d)
      BY <2>1
    <3>. QED  BY <2>1, <2>2, <3>1, StreamingSentenceBufferAssumption
  <2>. QED  BY <1>1, <1>2, <2>3
<1>3. CASE c2 > b2
  <2>1. PICK k \in 1 .. (Len(e) - 1) : k = b2 - c1 + 1 /\ k <= Len(d)
    BY <1>1, <1>3
  <2>2. PICK m \in 1 .. Len(d) : m = Len(d) - k + 1
    BY <1>1, <2>1
  <2>3. SubSeq(d, m, Len(d)) = SubSeq(text, c1, b2)
    <3>1. c1 = b1 + m - 1 /\ b2 = b1 + Len(d) - 1 /\ m \in 1 .. Len(d) + 1 /\ Len(d) \in 0 .. Len(d)
      BY <1>1, <2>1, <2>2
    <3>. QED  BY <1>0, <1>1, <3>1, PartOfPart
  <2>4. SubSeq(e, 1, k) = SubSeq(text, c1, b2)
    <3>1. c1 = c1 + 1 - 1 /\ b2 = c1 + k - 1 /\ 1 \in 1 .. Len(e) + 1 /\ k \in 0 .. Len(e)
      BY <1>1, <2>1
    <3>. QED  BY <1>0, <1>1, <3>1, PartOfPart
  <2>5. SubSeq(d, Len(d) - k + 1, Len(d)) # SubSeq(e, 1, k)
    BY <2>1, StreamingSentenceBufferAssumption
  <2>. QED  BY <2>2, <2>3, <2>4, <2>5
<1>. QED  BY <1>2, <1>3

LEMMA Apart ==
    ASSUME NEW text \in Seq(Bytes), NEW b \in Boundaries(text), NEW c \in Boundaries(text),
           b[1] <= c[1], c[1] <= b[2]
    PROVE  b = c
<1>1. /\ b = <<b[1], b[2]>> /\ b[1] \in 1 .. Len(text) /\ b[2] \in 1 .. Len(text)
      /\ c = <<c[1], c[2]>> /\ c[1] \in 1 .. Len(text) /\ c[2] \in 1 .. Len(text) /\ c[1] <= c[2]
      /\ SubSeq(text, b[1], b[2]) \in Delimiters /\ SubSeq(text, c[1], c[2]) \in Delimiters
  BY BoundaryIs
<1>2. b[1] = c[1] /\ b[2] = c[2]
  <2>1. PICK b1 \in 1 .. Len(text), b2 \in 1 .. Len(text) : b1 = b[1] /\ b2 = b[2]
    BY <1>1
  <2>2. PICK c1 \in 1 .. Len(text), c2 \in 1 .. Len(text) : c1 = c[1] /\ c2 = c[2]
    BY <1>1
  <2>3. SubSeq(text, b1, b2) \in Delimiters /\ SubSeq(text, c1, c2) \in Delimiters
    BY <1>1, <2>1, <2>2
  <2>4. b1 <= c1 /\ c1 <= b2 /\ c1 <= c2
    BY <1>1, <2>1, <2>2
  <2>5. b1 = c1 /\ b2 = c2
    BY <2>3, <2>4, Overlap
  <2>. QED  BY <2>1, <2>2, <2>5
<1>. QED  BY <1>1, <1>2

\* What findFirstBoundary() finds is the least end of a delimiter.
LEMMA FirstEndIs ==
    ASSUME buffer \in Seq(Bytes), Boundaries(buffer) # {}
    PROVE  /\ FirstEnd \in Ends(buffer) /\ FirstEnd \in 1 .. Len(buffer)
           /\ \A n \in Ends(buffer) : n >= FirstEnd
<1> DEFINE begins == {b[1] : b \in Boundaries(buffer)}
           least == Min(begins)
           there == {b[2] : b \in {c \in Boundaries(buffer) : c[1] = least}}
<1>1. \A b \in Boundaries(buffer) : /\ b = <<b[1], b[2]>> /\ b[1] \in 1 .. Len(buffer)
                                    /\ b[2] \in 1 .. Len(buffer) /\ b[1] <= b[2]
  BY BoundaryIs
<1>2. least \in begins /\ \A y \in begins : least <= y
  <2>1. begins \in SUBSET Nat /\ begins # {}
    BY <1>1
  <2>. QED  BY <2>1, MinIsLeast
<1> HIDE DEF least
<1>3. there \in SUBSET Nat /\ there # {} /\ \A y \in there : y <= Len(buffer)
  BY <1>1, <1>2
<1>4. FirstEnd = Max(there)
  BY DEF FirstEnd, least
<1>5. FirstEnd \in there
  <2>1. Len(buffer) \in Nat
    OBVIOUS
  <2> HIDE DEF there
  <2>. QED  BY <1>3, <1>4, <2>1, MaxIsGreatest
<1>6. PICK b \in Boundaries(buffer) : b[1] = least /\ b[2] = FirstEnd
  BY <1>5
<1>7. ASSUME NEW c \in Boundaries(buffer) PROVE c[2] >= FirstEnd
  <2>1. b[1] <= c[1]
    BY <1>2, <1>6
  <2>2. c[1] <= b[2] => b = c
    BY <2>1, Apart
  <2>. QED  BY <1>1, <1>6, <2>2
<1>. QED  BY <1>1, <1>6, <1>7 DEF Ends

\* The invariant: the buffer is the end of the text, from a cut on; nothing in it ends
\* with a delimiter when extractSentences() is done; and what has left are the pieces
\* of the text before that cut.
TextOK == /\ buffer \in Seq(Bytes) /\ given \in Seq(Bytes) /\ Len(buffer) <= Len(given)
          /\ buffer = SubSeq(given, Taken + 1, Len(given))
          /\ extracting \in BOOLEAN /\ flushed \in BOOLEAN
AtCut == /\ ~flushed => Taken = 0 \/ Taken \in Ends(given)
         /\ flushed => Taken = Len(given) /\ ~extracting
Quiet == ~extracting => Boundaries(buffer) = {}
Placed == /\ places \in Seq(Nat \X Nat)
          /\ {places[i] : i \in DOMAIN places} = {p \in Pieces(given) : p[2] <= Taken}
          /\ \A i, j \in DOMAIN places : i < j => places[i][2] <= places[j][1]
          /\ said = [i \in DOMAIN places |-> Trim(SubSeq(given, places[i][1] + 1, places[i][2]))]
SentenceInv == TextOK /\ AtCut /\ Quiet /\ Placed

LEMMA TakenIs ==
    ASSUME TextOK
    PROVE  /\ Taken \in 0 .. Len(given) /\ Len(buffer) = Len(given) - Taken
           /\ Len(given) \in Nat /\ Len(buffer) \in Nat
           /\ Taken + 1 \in 1 .. Len(given) + 1 /\ Len(given) \in 0 .. Len(given)
  BY DEF TextOK, Taken

\* A part of the buffer is a part of the text.
LEMMA BufferPart ==
    ASSUME TextOK, NEW m \in 1 .. Len(buffer) + 1, NEW n \in 0 .. Len(buffer),
           NEW a \in Int, NEW b \in Int, a = Taken + m, b = Taken + n
    PROVE  SubSeq(buffer, m, n) = SubSeq(given, a, b)
<1>1. PICK i \in 1 .. Len(given) + 1, j \in 0 .. Len(given) : i = Taken + 1 /\ j = Len(given)
  BY TakenIs
<1>2. buffer = SubSeq(given, i, j)
  BY <1>1 DEF TextOK
<1>3. PICK t \in Nat : t = Taken
  BY TakenIs
<1>4. i = t + 1 /\ a = t + m /\ b = t + n
  BY <1>1, <1>3
<1>5. m \in Nat /\ n \in Nat
  BY TakenIs
<1>6. a = i + m - 1 /\ b = i + n - 1
  BY <1>4, <1>5
<1>7. given \in Seq(Bytes)
  BY DEF TextOK
<1>8. PICK d : d = buffer
  OBVIOUS
<1>9. m \in 1 .. Len(d) + 1 /\ n \in 0 .. Len(d) /\ d = SubSeq(given, i, j)
  BY <1>2, <1>8
<1>10. SubSeq(d, m, n) = SubSeq(given, a, b)
  <2>1. i \in 1 .. Len(given) + 1 /\ j \in 0 .. Len(given) /\ a \in Int /\ b \in Int
    OBVIOUS
  <2>2. \A x \in 1 .. Len(d) + 1, y \in 0 .. Len(d), u, v \in Int :
          u = i + x - 1 /\ v = i + y - 1 => SubSeq(d, x, y) = SubSeq(given, u, v)
    BY <1>7, <1>9, <2>1, PartOfPart
  <2>. QED BY <1>6, <1>9, <2>1, <2>2
<1>. QED  BY <1>8, <1>10

LEMMA CutTypes ==
    ASSUME NEW text \in Seq(Bytes)
    PROVE  /\ Ends(text) \subseteq 1 .. Len(text) /\ Cuts(text) \subseteq 0 .. Len(text)
           /\ \A e \in Ends(text) : \E b \in 1 .. Len(text) :
                 b <= e /\ SubSeq(text, b, e) \in Delimiters
           /\ \A b, e \in 1 .. Len(text) : SubSeq(text, b, e) \in Delimiters => e \in Ends(text)
<1>1. \A e \in Ends(text) : \E b \in Boundaries(text) : e = b[2]
  BY DEF Ends
<1>2. Ends(text) \subseteq 1 .. Len(text)
  BY <1>1, BoundaryIs
<1>3. \A e \in Ends(text) : \E b \in 1 .. Len(text) : b <= e /\ SubSeq(text, b, e) \in Delimiters
  BY <1>1, BoundaryIs
<1>4. ASSUME NEW b \in 1 .. Len(text), NEW e \in 1 .. Len(text), SubSeq(text, b, e) \in Delimiters
      PROVE  e \in Ends(text)
  <2>1. <<b, e>> \in Boundaries(text)
    BY <1>4 DEF Boundaries
  <2>. QED  BY <2>1 DEF Ends
<1>5. Cuts(text) \subseteq 0 .. Len(text)
  BY <1>2 DEF Cuts
<1>. QED  BY <1>2, <1>3, <1>4, <1>5

\* The ends of delimiters behind what was taken are those in the buffer: no delimiter
\* reaches over a cut.
LEMMA Behind ==
    ASSUME TextOK, Taken = 0 \/ Taken \in Ends(given)
    PROVE  {e \in Ends(given) : e > Taken} = {Taken + n : n \in Ends(buffer)}
<1>1. ASSUME NEW n \in Ends(buffer)
      PROVE  Taken + n \in Ends(given) /\ Taken + n > Taken
  <2>1. PICK b \in 1 .. Len(buffer) : b <= n /\ n \in 1 .. Len(buffer)
                                      /\ SubSeq(buffer, b, n) \in Delimiters
    BY CutTypes DEF TextOK
  <2>2. PICK i \in 1 .. Len(given), j \in 1 .. Len(given) : i = Taken + b /\ j = Taken + n
    BY <2>1, TakenIs
  <2>3. SubSeq(buffer, b, n) = SubSeq(given, i, j)
    <3>1. /\ i \in Int /\ j \in Int /\ i = Taken + b /\ j = Taken + n
          /\ b \in 1 .. Len(buffer) + 1 /\ n \in 0 .. Len(buffer)
      BY <2>1, <2>2, TakenIs
    <3>. QED  BY <3>1, BufferPart
  <2>4. j \in Ends(given)
    BY <2>1, <2>2, <2>3, CutTypes DEF TextOK
  <2>. QED  BY <2>1, <2>2, <2>4, TakenIs
<1>2. ASSUME NEW e \in Ends(given), e > Taken PROVE \E n \in Ends(buffer) : e = Taken + n
  <2>1. PICK b \in 1 .. Len(given) : /\ b <= e /\ e \in 1 .. Len(given)
                                     /\ SubSeq(given, b, e) \in Delimiters
    BY CutTypes DEF TextOK
  <2>2. b > Taken
    <3>1. SUFFICES ASSUME b <= Taken PROVE FALSE
      BY <2>1, TakenIs
    <3>2. PICK a \in 1 .. Len(given) : /\ a <= Taken /\ Taken \in 1 .. Len(given)
                                       /\ SubSeq(given, a, Taken) \in Delimiters
      BY <2>1, <3>1, CutTypes DEF TextOK
    <3>3. CASE a <= b
      <4>1. a = b /\ Taken = e
        BY <2>1, <3>1, <3>2, <3>3, Overlap DEF TextOK
      <4>. QED  BY <1>2, <4>1, TakenIs
    <3>4. CASE b < a
      <4>1. b = a /\ e = Taken
        BY <1>2, <2>1, <3>1, <3>2, <3>4, Overlap DEF TextOK
      <4>. QED  BY <1>2, <4>1, TakenIs
    <3>. QED  BY <3>3, <3>4
  <2>3. PICK m \in 1 .. Len(buffer), n \in 1 .. Len(buffer) : m = b - Taken /\ n = e - Taken
    BY <1>2, <2>1, <2>2, TakenIs
  <2>4. SubSeq(buffer, m, n) = SubSeq(given, b, e)
    <3>1. /\ b \in Int /\ e \in Int /\ b = Taken + m /\ e = Taken + n
          /\ m \in 1 .. Len(buffer) + 1 /\ n \in 0 .. Len(buffer)
      BY <2>1, <2>3, TakenIs
    <3>. QED  BY <3>1, BufferPart
  <2>5. n \in Ends(buffer)
    BY <2>1, <2>3, <2>4, CutTypes DEF TextOK
  <2>. QED  BY <2>1, <2>3, <2>5, TakenIs
<1>. QED  BY <1>1, <1>2

\* What arrives changes nothing before the last cut.
LEMMA SameCuts ==
    ASSUME NEW s \in Seq(Bytes), NEW d \in Seq(Bytes), NEW t, t = 0 \/ t \in Ends(s)
    PROVE  /\ t \in 0 .. Len(s) /\ Ends(s) \subseteq Ends(s \o d)
           /\ \A c \in Nat : c <= t => (c \in Cuts(s) <=> c \in Cuts(s \o d))
<1>1. /\ s \o d \in Seq(Bytes) /\ Len(s \o d) = Len(s) + Len(d) /\ Len(s) \in Nat /\ Len(d) \in Nat
      /\ Len(s) <= Len(s \o d) /\ Len(s \o d) \in Nat
  OBVIOUS
<1>2. t \in 0 .. Len(s)
  BY CutTypes
<1>3. ASSUME NEW e \in Ends(s) PROVE e \in Ends(s \o d)
  <2>1. PICK b \in 1 .. Len(s) : b <= e /\ e \in 1 .. Len(s) /\ SubSeq(s, b, e) \in Delimiters
    BY CutTypes
  <2>2. SubSeq(s \o d, b, e) = SubSeq(s, b, e)
    <3>1. b \in 1 .. Len(s) + 1 /\ e \in 0 .. Len(s)
      BY <2>1
    <3>. QED  BY <3>1, PartOfBeginning
  <2>3. b \in 1 .. Len(s \o d) /\ e \in 1 .. Len(s \o d)
    BY <1>1, <2>1
  <2>. QED  BY <1>1, <2>1, <2>2, <2>3, CutTypes
<1>4. ASSUME NEW e \in Ends(s \o d), e <= Len(s) PROVE e \in Ends(s)
  <2>1. PICK b \in 1 .. Len(s \o d) : /\ b <= e /\ e \in 1 .. Len(s \o d)
                                      /\ SubSeq(s \o d, b, e) \in Delimiters
    BY <1>1, CutTypes
  <2>2. b \in 1 .. Len(s) /\ e \in 1 .. Len(s)
    BY <1>1, <1>4, <2>1
  <2>3. SubSeq(s \o d, b, e) = SubSeq(s, b, e)
    <3>1. b \in 1 .. Len(s) + 1 /\ e \in 0 .. Len(s)
      BY <2>2
    <3>. QED  BY <3>1, PartOfBeginning
  <2>. QED  BY <2>1, <2>2, <2>3, CutTypes
<1>5. ASSUME NEW c \in Nat, c <= t PROVE c \in Cuts(s) <=> c \in Cuts(s \o d)
  <2>1. c \in Cuts(s) => c = 0 \/ c \in Ends(s)
    <3>1. c = Len(s) => c = t
      BY <1>1, <1>2, <1>5
    <3>. QED  BY <3>1 DEF Cuts
  <2>2. c \in Cuts(s \o d) => c = 0 \/ c \in Ends(s)
    <3>1. c <= Len(s)
      BY <1>1, <1>2, <1>5
    <3>2. c = Len(s \o d) => c = t
      BY <1>1, <1>2, <1>5
    <3>. QED  BY <1>4, <3>1, <3>2 DEF Cuts
  <2>3. c = 0 \/ c \in Ends(s) => c \in Cuts(s) /\ c \in Cuts(s \o d)
    BY <1>3 DEF Cuts
  <2>. QED  BY <2>1, <2>2, <2>3
<1>. QED  BY <1>2, <1>3, <1>5

LEMMA SamePieces ==
    ASSUME NEW s \in Seq(Bytes), NEW d \in Seq(Bytes), NEW t, t = 0 \/ t \in Ends(s)
    PROVE  {p \in Pieces(s) : p[2] <= t} = {p \in Pieces(s \o d) : p[2] <= t}
<1>0. /\ s \o d \in Seq(Bytes) /\ t \in 0 .. Len(s) /\ Len(s) \in Nat
      /\ Cuts(s) \subseteq Nat /\ Cuts(s \o d) \subseteq Nat
  <2>1. s \o d \in Seq(Bytes) /\ Len(s) \in Nat
    OBVIOUS
  <2>2. t \in 0 .. Len(s)
    BY SameCuts
  <2>3. Cuts(s) \subseteq 0 .. Len(s) /\ Cuts(s \o d) \subseteq 0 .. Len(s \o d)
    BY <2>1, CutTypes
  <2>. QED  BY <2>1, <2>2, <2>3
<1>1. \A c \in Nat : c <= t => (c \in Cuts(s) <=> c \in Cuts(s \o d))
  BY SameCuts
<1>2. ASSUME NEW a \in Nat, NEW b \in Nat, a < b, b <= t
      PROVE  <<a, b>> \in Pieces(s) <=> <<a, b>> \in Pieces(s \o d)
  <2>1. (a \in Cuts(s) <=> a \in Cuts(s \o d)) /\ (b \in Cuts(s) <=> b \in Cuts(s \o d))
    BY <1>0, <1>1, <1>2
  <2>2. (\A c \in Cuts(s) : ~(a < c /\ c < b)) <=> (\A c \in Cuts(s \o d) : ~(a < c /\ c < b))
    BY <1>0, <1>1, <1>2
  <2>3. SubSeq(s \o d, a + 1, b) = SubSeq(s, a + 1, b)
    <3>1. a + 1 \in 1 .. Len(s) + 1 /\ b \in 0 .. Len(s)
      BY <1>0, <1>2
    <3>. QED  BY <3>1, PartOfBeginning
  <2>. QED  BY <1>2, <2>1, <2>2, <2>3 DEF Pieces
<1>3. \A p : p \in Pieces(s) \/ p \in Pieces(s \o d) =>
             /\ p = <<p[1], p[2]>> /\ p[1] \in Nat /\ p[2] \in Nat /\ p[1] < p[2]
  BY <1>0 DEF Pieces
<1>. QED  BY <1>0, <1>2, <1>3

\* One more piece is taken.
LEMMA NextPiece ==
    ASSUME NEW text \in Seq(Bytes), NEW t \in Cuts(text), NEW u \in Cuts(text), t <= u,
           \A c \in Cuts(text) : ~(t < c /\ c < u)
    PROVE  {p \in Pieces(text) : p[2] <= u} =
              {p \in Pieces(text) : p[2] <= t}
              \cup (IF Trim(SubSeq(text, t + 1, u)) = <<>> THEN {} ELSE {<<t, u>>})
<1>0. Cuts(text) \subseteq Nat
  BY CutTypes
<1>1. \A p \in Pieces(text) : /\ p = <<p[1], p[2]>> /\ p[1] \in Cuts(text) /\ p[2] \in Cuts(text)
                              /\ p[1] < p[2] /\ \A c \in Cuts(text) : ~(p[1] < c /\ c < p[2])
                              /\ Trim(SubSeq(text, p[1] + 1, p[2])) # <<>>
  BY DEF Pieces
<1>2. ASSUME NEW p \in Pieces(text), p[2] <= u, ~(p[2] <= t)
      PROVE  p = <<t, u>> /\ Trim(SubSeq(text, t + 1, u)) # <<>>
  <2>1. p[2] = u
    BY <1>0, <1>1, <1>2
  <2>2. p[1] = t
    BY <1>0, <1>1, <1>2, <2>1
  <2>. QED  BY <1>1, <2>1, <2>2
<1>3. Trim(SubSeq(text, t + 1, u)) # <<>> => t < u
  <2>1. SUFFICES ASSUME t = u PROVE Trim(SubSeq(text, t + 1, u)) = <<>>
    BY <1>0
  <2>2. SubSeq(text, t + 1, u) = <<>>
    <3>1. SubSeq(text, t + 1, u) \in Seq(Bytes) /\ Len(SubSeq(text, t + 1, u)) = 0
      BY <2>1, PartIs, CutTypes
    <3>. QED  BY <3>1
  <2>. QED  BY <2>2 DEF Trim
<1>4. Trim(SubSeq(text, t + 1, u)) # <<>> => <<t, u>> \in Pieces(text)
  BY <1>0, <1>3 DEF Pieces
<1>5. ASSUME NEW p \in Pieces(text), p[2] <= t PROVE p[2] <= u
  BY <1>0, <1>1, <1>5
<1>. QED  BY <1>0, <1>2, <1>4, <1>5

\* Taking from the buffer what ends at a cut of the text, with no other cut in it.
LEMMA Taking ==
    ASSUME TextOK, Placed, Taken \in Cuts(given), NEW n \in 0 .. Len(buffer), Take(n), given' = given,
           Taken + n \in Cuts(given), \A c \in Cuts(given) : ~(Taken < c /\ c < Taken + n)
    PROVE  /\ Taken' = Taken + n /\ Placed'
           /\ buffer' \in Seq(Bytes) /\ Len(buffer') <= Len(given')
           /\ buffer' = SubSeq(given', Taken' + 1, Len(given'))
<1> DEFINE t == Taken
           u == Taken + n
           old == {p \in Pieces(given) : p[2] <= t}
           sentence == Trim(SubSeq(buffer, 1, n))
<1>1. /\ t \in 0 .. Len(given) /\ Len(buffer) = Len(given) - t /\ u \in 0 .. Len(given) /\ t <= u
      /\ Len(given) \in Nat /\ Len(buffer) \in Nat /\ n \in Nat /\ t \in Nat /\ u \in Nat
  BY TakenIs
<1>2. given \in Seq(Bytes) /\ buffer \in Seq(Bytes)
  BY DEF TextOK
<1>3. /\ buffer' = SubSeq(buffer, n + 1, Len(buffer))
      /\ IF sentence = <<>>
           THEN UNCHANGED <<said, places>>
           ELSE said' = Append(said, sentence) /\ places' = Append(places, <<t, u>>)
  BY DEF Take
<1>4. SubSeq(buffer, 1, n) = SubSeq(given, t + 1, u)
  BY <1>1, BufferPart
<1>5. buffer' = SubSeq(given, u + 1, Len(given))
  <2>0. /\ n + 1 \in 1 .. Len(buffer) + 1 /\ Len(buffer) \in 0 .. Len(buffer)
        /\ u + 1 \in Int /\ Len(given) \in Int
        /\ u + 1 = Taken + (n + 1) /\ Len(given) = Taken + Len(buffer)
    BY <1>1
  <2>1. PICK m \in 1 .. Len(buffer) + 1, k \in 0 .. Len(buffer), a \in Int, b \in Int :
            /\ m = n + 1 /\ k = Len(buffer) /\ a = u + 1 /\ b = Len(given)
            /\ a = Taken + m /\ b = Taken + k
    <3> HIDE DEF u
    <3>. QED  BY <2>0, Zenon
  <2>2. SubSeq(buffer, m, k) = SubSeq(given, a, b)
    BY <2>1, BufferPart
  <2>. QED  BY <1>3, <2>1, <2>2
<1>6. buffer' \in Seq(Bytes) /\ Len(buffer') = Len(given) - u
  <2>1. u + 1 \in 1 .. Len(given) + 1 /\ Len(given) \in 0 .. Len(given)
    BY <1>1
  <2>2. /\ buffer' \in Seq(Bytes)
        /\ Len(buffer') = IF u + 1 <= Len(given) THEN Len(given) - (u + 1) + 1 ELSE 0
    BY <1>2, <1>5, <2>1, PartIs
  <2>. QED  BY <1>1, <2>2
<1>7. Taken' = u
  BY <1>1, <1>6 DEF Taken
<1>8. {p \in Pieces(given) : p[2] <= u} = old \cup (IF sentence = <<>> THEN {} ELSE {<<t, u>>})
  <2>1. PICK v \in Cuts(given), w \in Cuts(given) : v = t /\ w = u
    OBVIOUS
  <2>2. v <= w /\ \A c \in Cuts(given) : ~(v < c /\ c < w)
    BY <1>1, <2>1
  <2>3. {p \in Pieces(given) : p[2] <= w} =
           {p \in Pieces(given) : p[2] <= v}
           \cup (IF Trim(SubSeq(given, v + 1, w)) = <<>> THEN {} ELSE {<<v, w>>})
    BY <1>2, <2>2, NextPiece
  <2>. QED  BY <1>4, <2>1, <2>3
<1> HIDE DEF t, u, old, sentence
<1>9. /\ places \in Seq(Nat \X Nat) /\ {places[i] : i \in DOMAIN places} = old
      /\ \A i, j \in DOMAIN places : i < j => places[i][2] <= places[j][1]
      /\ said = [i \in DOMAIN places |-> Trim(SubSeq(given, places[i][1] + 1, places[i][2]))]
  BY DEF Placed, old, t
<1>10. Placed'
  <2>1. CASE sentence = <<>>
    BY <1>3, <1>7, <1>8, <1>9, <2>1 DEF Placed
  <2>2. CASE sentence # <<>>
    <3> DEFINE m == Len(places)
    <3>1. /\ places' \in Seq(Nat \X Nat) /\ m \in Nat /\ DOMAIN places = 1 .. m
          /\ DOMAIN places' = 1 .. (m + 1) /\ places'[m + 1] = <<t, u>>
          /\ \A i \in 1 .. m : places'[i] = places[i] /\ places[i] \in Nat \X Nat
      <4>1. <<t, u>> \in Nat \X Nat
        BY <1>1
      <4>2. places' = Append(places, <<t, u>>)
        BY <1>3, <2>2
      <4>3. PICK q \in Nat \X Nat : q = <<t, u>>
        BY <4>1
      <4>. QED  BY <1>9, <4>2, <4>3
    <3>2. {places'[i] : i \in DOMAIN places'} = {p \in Pieces(given) : p[2] <= u}
      <4>1. {places'[i] : i \in DOMAIN places'} = {places[i] : i \in DOMAIN places} \cup {<<t, u>>}
        <5>1. \A i \in 1 .. m : i \in 1 .. (m + 1)
          BY <3>1
        <5>2. m + 1 \in 1 .. (m + 1) /\ \A i \in 1 .. (m + 1) : i \in 1 .. m \/ i = m + 1
          BY <3>1
        <5> HIDE DEF m
        <5>3. ASSUME NEW i \in 1 .. (m + 1)
              PROVE  places'[i] \in {places[k] : k \in DOMAIN places} \cup {<<t, u>>}
          BY <3>1, <5>2
        <5>4. ASSUME NEW i \in 1 .. m PROVE places[i] \in {places'[k] : k \in DOMAIN places'}
          BY <3>1, <5>1
        <5>5. <<t, u>> \in {places'[k] : k \in DOMAIN places'}
          BY <3>1, <5>2
        <5> DEFINE now == {places'[k] : k \in DOMAIN places'}
                   before == {places[k] : k \in DOMAIN places}
        <5>6. now \subseteq before \cup {<<t, u>>}
          BY <3>1, <5>3
        <5>7. before \subseteq now
          BY <3>1, <5>4
        <5> HIDE DEF now, before
        <5>8. <<t, u>> \in now
          BY <5>5 DEF now
        <5>9. now = before \cup {<<t, u>>}
          BY <5>6, <5>7, <5>8
        <5>. QED  BY <5>9 DEF now, before
      <4>. QED  BY <1>8, <1>9, <2>2, <4>1
    <3>3. \A i \in 1 .. m : places[i][2] <= t
      BY <1>9, <3>1 DEF old
    <3>4. \A i, j \in DOMAIN places' : i < j => places'[i][2] <= places'[j][1]
      <4> SUFFICES ASSUME NEW i \in 1 .. (m + 1), NEW j \in 1 .. (m + 1), i < j
                   PROVE  places'[i][2] <= places'[j][1]
        BY <3>1
      <4>1. i \in 1 .. m /\ places'[i] = places[i]
        <5>1. m \in Nat
          BY <3>1
        <5> HIDE DEF m
        <5>2. i \in 1 .. m
          BY <5>1
        <5>. QED  BY <3>1, <5>2
      <4>2. CASE j = m + 1
        BY <3>1, <3>3, <4>1, <4>2
      <4>3. CASE j \in 1 .. m
        BY <1>9, <3>1, <4>1, <4>3
      <4>. QED  BY <4>2, <4>3
    <3>5. said' = [i \in DOMAIN places' |->
                      Trim(SubSeq(given, places'[i][1] + 1, places'[i][2]))]
      <4>1. sentence = Trim(SubSeq(given, t + 1, u))
        BY <1>4 DEF sentence
      <4>2. said' = Append(said, sentence)
        BY <1>3, <2>2
      <4>3. /\ Len(said) = m /\ said = [i \in 1 .. m |-> said[i]]
            /\ \A i \in 1 .. m : said[i] = Trim(SubSeq(given, places[i][1] + 1, places[i][2]))
        <5> HIDE DEF m
        <5>1. said = [i \in 1 .. m |-> Trim(SubSeq(given, places[i][1] + 1, places[i][2]))]
          BY <1>9, <3>1
        <5>. QED  BY <3>1, <5>1
      <4>4. said' = [i \in 1 .. (m + 1) |-> IF i <= m THEN said[i] ELSE sentence]
        BY <4>2, <4>3, <3>1
      <4>. QED  BY <3>1, <4>1, <4>3, <4>4
    <3>. QED  BY <1>7, <3>1, <3>2, <3>4, <3>5 DEF Placed
  <2>. QED  BY <2>1, <2>2
<1>. QED  BY <1>1, <1>5, <1>6, <1>7, <1>10 DEF u

LEMMA NoText ==
    /\ Boundaries(<<>>) = {} /\ Pieces(<<>>) = {}
    /\ <<>> \in Seq(Bytes) /\ SubSeq(<<>>, 1, 0) = <<>>
    /\ \A s \in Seq(Bytes) : Len(s) = 0 => s = <<>>
<1>1. DOMAIN <<>> = {} /\ Len(<<>>) = 0
  OBVIOUS
<1>2. Boundaries(<<>>) = {}
  BY <1>1 DEF Boundaries
<1>3. Cuts(<<>>) = {0}
  BY <1>1, <1>2 DEF Cuts, Ends
<1>4. Pieces(<<>>) = {}
  BY <1>3 DEF Pieces
<1>5. <<>> \in Seq(Bytes) /\ \A s \in Seq(Bytes) : Len(s) = 0 => s = <<>>
  OBVIOUS
<1>6. SubSeq(<<>>, 1, 0) \in Seq(Bytes) /\ Len(SubSeq(<<>>, 1, 0)) = 0
  <2>1. \A s \in Seq(Bytes) : 1 \in 1 .. Len(s) + 1 /\ 0 \in 0 .. Len(s)
    OBVIOUS
  <2>. QED  BY <1>5, <2>1, PartIs
<1>. QED  BY <1>2, <1>4, <1>5, <1>6

LEMMA Beginning ==
    ASSUME buffer = <<>>, given = <<>>, places = <<>>, said = <<>>,
           extracting = FALSE, flushed = FALSE
    PROVE  SentenceInv
<1>1. Taken = 0 /\ Len(given) = 0 /\ Len(buffer) = 0
  BY DEF Taken
<1>2. TextOK
  <2>1. buffer = SubSeq(given, Taken + 1, Len(given))
    BY <1>1, NoText
  <2>2. buffer \in Seq(Bytes) /\ given \in Seq(Bytes)
    BY NoText
  <2>3. Len(buffer) <= Len(given)
    BY <1>1
  <2>. QED  BY <2>1, <2>2, <2>3 DEF TextOK
<1>3. AtCut /\ Quiet
  BY <1>1, NoText DEF AtCut, Quiet
<1>4. Placed
  BY <1>1, NoText DEF Placed
<1>. QED  BY <1>2, <1>3, <1>4 DEF SentenceInv

LEMMA Clearing == ASSUME ClearBuffer, ~extracting, extracting \in BOOLEAN PROVE SentenceInv'
<1>0. /\ buffer' = <<>> /\ given' = <<>> /\ places' = <<>> /\ said' = <<>>
      /\ extracting' = FALSE /\ flushed' = FALSE
  BY DEF ClearBuffer
<1>1. Taken' = 0 /\ Len(given') = 0 /\ Len(buffer') = 0
  BY <1>0 DEF Taken
<1>2. TextOK'
  <2>1. buffer' = SubSeq(given', Taken' + 1, Len(given'))
    BY <1>0, <1>1, NoText
  <2>2. buffer' \in Seq(Bytes) /\ given' \in Seq(Bytes)
    BY <1>0, NoText
  <2>3. Len(buffer') <= Len(given')
    BY <1>1
  <2>. QED  BY <1>0, <2>1, <2>2, <2>3 DEF TextOK
<1>3. AtCut' /\ Quiet'
  BY <1>0, <1>1, NoText DEF AtCut, Quiet
<1>4. Placed'
  BY <1>0, <1>1, NoText DEF Placed
<1>. QED  BY <1>2, <1>3, <1>4 DEF SentenceInv

LEMMA Appending ==
    ASSUME SentenceInv, NEW delta \in Seq(Bytes), AppendDelta(delta)
    PROVE  SentenceInv'
<1>0. TextOK /\ AtCut /\ Placed /\ ~flushed
  BY DEF SentenceInv, AppendDelta
<1>1. /\ buffer' = buffer \o delta /\ given' = given \o delta /\ extracting' = TRUE
      /\ said' = said /\ places' = places /\ flushed' = flushed
  BY DEF AppendDelta
<1>2. /\ given \in Seq(Bytes) /\ buffer \in Seq(Bytes) /\ Len(delta) \in Nat
      /\ given' \in Seq(Bytes) /\ Len(given') = Len(given) + Len(delta)
      /\ buffer' \in Seq(Bytes) /\ Len(buffer') = Len(buffer) + Len(delta)
      /\ \A k \in 1 .. Len(given) : given'[k] = given[k]
      /\ \A k \in 1 .. Len(delta) : given'[Len(given) + k] = delta[k]
      /\ \A k \in 1 .. Len(buffer) : buffer'[k] = buffer[k]
      /\ \A k \in 1 .. Len(delta) : buffer'[Len(buffer) + k] = delta[k]
  <2>1. given \in Seq(Bytes) /\ buffer \in Seq(Bytes)
    BY <1>0 DEF TextOK
  <2>. QED  BY <1>1, <2>1, Together
<1>3. PICK t \in 0 .. Len(given) :
          /\ t = Taken /\ Taken' = t /\ Len(buffer) = Len(given) - t
          /\ Len(given) \in Nat /\ Len(buffer) \in Nat
  <2>1. /\ Taken \in 0 .. Len(given) /\ Len(buffer) = Len(given) - Taken
        /\ Len(given) \in Nat /\ Len(buffer) \in Nat
    BY <1>0, TakenIs
  <2>2. Taken' = Taken
    BY <1>2, <2>1 DEF Taken
  <2>. QED  BY <2>1, <2>2
<1>4. t = 0 \/ t \in Ends(given)
  BY <1>0, <1>3 DEF AtCut
<1>5. buffer' = SubSeq(given', t + 1, Len(given'))
  <2> DEFINE part == SubSeq(given', t + 1, Len(given'))
  <2>1. t + 1 \in 1 .. Len(given') + 1 /\ Len(given') \in 0 .. Len(given')
    BY <1>2, <1>3
  <2>2. /\ part \in Seq(Bytes) /\ \A k \in 1 .. Len(part) : part[k] = given'[t + 1 + k - 1]
        /\ Len(part) = IF t + 1 <= Len(given') THEN Len(given') - (t + 1) + 1 ELSE 0
    BY <1>2, <2>1, PartIs
  <2>3. Len(part) = Len(buffer')
    BY <1>2, <1>3, <2>2
  <2>4. /\ t + 1 \in 1 .. Len(given) + 1 /\ Len(given) \in 0 .. Len(given)
        /\ buffer = SubSeq(given, t + 1, Len(given))
    BY <1>0, <1>3 DEF TextOK
  <2>5. \A k \in 1 .. Len(buffer) : buffer[k] = given[t + 1 + k - 1]
    BY <1>2, <2>4, PartIs
  <2> HIDE DEF part
  <2>6. ASSUME NEW k \in 1 .. Len(buffer') PROVE buffer'[k] = part[k]
    <3>0. part[k] = given'[t + k] /\ k \in Nat
      BY <1>3, <2>2, <2>3
    <3>1. CASE k <= Len(buffer)
      <4>1. k \in 1 .. Len(buffer) /\ t + k \in 1 .. Len(given) /\ t + 1 + k - 1 = t + k
        BY <1>3, <3>0, <3>1
      <4>. QED  BY <1>2, <2>5, <3>0, <4>1
    <3>2. CASE k > Len(buffer)
      <4>1. PICK m \in 1 .. Len(delta) : m = k - Len(buffer)
        <5>1. k - Len(buffer) \in 1 .. Len(delta)
          BY <1>2, <1>3, <3>0, <3>2
        <5>. QED  BY <5>1
      <4>2. k = Len(buffer) + m /\ t + k = Len(given) + m
        BY <1>3, <3>0, <4>1
      <4>. QED  BY <1>2, <3>0, <4>2
    <3>. QED  BY <1>3, <3>0, <3>1, <3>2
  <2>7. buffer' = part
    BY <1>2, <2>2, <2>3, <2>6, SameText
  <2>. QED  BY <2>7 DEF part
<1>6. TextOK'
  <2>1. Len(buffer') <= Len(given')
    BY <1>2, <1>3
  <2>2. extracting' \in BOOLEAN /\ flushed' \in BOOLEAN
    BY <1>0, <1>1 DEF TextOK
  <2>. QED  BY <1>2, <1>3, <1>5, <2>1, <2>2 DEF TextOK
<1>7. AtCut' /\ Quiet'
  <2>1. Ends(given) \subseteq Ends(given')
    BY <1>1, <1>2, <1>4, SameCuts
  <2>. QED  BY <1>0, <1>1, <1>3, <1>4, <2>1 DEF AtCut, Quiet
<1>8. {p \in Pieces(given') : p[2] <= t} = {p \in Pieces(given) : p[2] <= t}
  <2>1. \A s \in Seq(Bytes) : t = 0 \/ t \in Ends(s) =>
           {p \in Pieces(s) : p[2] <= t} = {p \in Pieces(s \o delta) : p[2] <= t}
    BY SamePieces
  <2>. QED  BY <1>1, <1>2, <1>4, <2>1, Zenon
<1>9. ASSUME NEW i \in DOMAIN places
      PROVE  SubSeq(given', places[i][1] + 1, places[i][2])
                = SubSeq(given, places[i][1] + 1, places[i][2])
  <2>1. places[i] \in Pieces(given) /\ places[i][2] <= t
    BY <1>0, <1>3 DEF Placed
  <2>2. Cuts(given) \subseteq 0 .. Len(given)
    BY <1>2, CutTypes
  <2>3. PICK a \in 0 .. Len(given), b \in 0 .. Len(given) :
            a = places[i][1] /\ b = places[i][2] /\ a < b
    BY <2>1, <2>2 DEF Pieces
  <2>4. a + 1 \in 1 .. Len(given) + 1
    BY <1>3
  <2>5. SubSeq(given', a + 1, b) = SubSeq(given, a + 1, b)
    BY <1>1, <1>2, <2>4, PartOfBeginning
  <2>. QED  BY <2>3, <2>5
<1>10. Placed'
  <2>1. /\ places' \in Seq(Nat \X Nat)
        /\ \A i, j \in DOMAIN places' : i < j => places'[i][2] <= places'[j][1]
    BY <1>0, <1>1 DEF Placed
  <2>2. {places'[i] : i \in DOMAIN places'} = {p \in Pieces(given') : p[2] <= Taken'}
    BY <1>0, <1>1, <1>3, <1>8 DEF Placed
  <2>3. said' = [i \in DOMAIN places' |->
                    Trim(SubSeq(given', places'[i][1] + 1, places'[i][2]))]
    BY <1>0, <1>1, <1>9 DEF Placed
  <2>. QED  BY <2>1, <2>2, <2>3 DEF Placed
<1>. QED  BY <1>6, <1>7, <1>10 DEF SentenceInv

LEMMA Extracting == ASSUME SentenceInv, ExtractSentence PROVE SentenceInv'
<1>0. TextOK /\ AtCut /\ Placed /\ ~flushed /\ (Taken = 0 \/ Taken \in Ends(given))
  BY DEF SentenceInv, AtCut, ExtractSentence
<1>1. /\ Boundaries(buffer) # {} /\ Take(FirstEnd) /\ given' = given
      /\ extracting' = extracting /\ extracting /\ flushed' = flushed
  BY DEF ExtractSentence
<1>2. PICK n \in 1 .. Len(buffer) :
          n = FirstEnd /\ n \in Ends(buffer) /\ \A m \in Ends(buffer) : m >= n
  BY <1>0, <1>1, FirstEndIs DEF TextOK
<1>3. {e \in Ends(given) : e > Taken} = {Taken + m : m \in Ends(buffer)}
  BY <1>0, Behind
<1>4. Taken + n \in Ends(given)
  BY <1>2, <1>3
<1>5. Taken \in Cuts(given) /\ Taken + n \in Cuts(given) /\ n \in 0 .. Len(buffer)
  BY <1>0, <1>4, TakenIs DEF Cuts
<1>6. ASSUME NEW c \in Cuts(given), Taken < c, c < Taken + n PROVE FALSE
  <2>1. /\ Taken \in 0 .. Len(given) /\ Len(buffer) = Len(given) - Taken /\ Len(given) \in Nat
        /\ Ends(buffer) \subseteq 1 .. Len(buffer)
    BY <1>0, TakenIs, CutTypes DEF TextOK
  <2>2. c \in Ends(given)
    BY <1>2, <1>6, <2>1 DEF Cuts
  <2>3. PICK m \in Ends(buffer) : c = Taken + m
    BY <1>3, <1>6, <2>2
  <2>. QED  BY <1>2, <1>6, <2>1, <2>3
<1>7. /\ Taken' = Taken + n /\ Placed'
      /\ buffer' \in Seq(Bytes) /\ Len(buffer') <= Len(given')
      /\ buffer' = SubSeq(given', Taken' + 1, Len(given'))
  <2>1. Take(n)
    BY <1>1, <1>2
  <2>2. \A c \in Cuts(given) : ~(Taken < c /\ c < Taken + n)
    BY <1>6
  <2>. QED  BY <1>0, <1>1, <1>5, <2>1, <2>2, Taking
<1>8. TextOK' /\ AtCut' /\ Quiet'
  BY <1>0, <1>1, <1>4, <1>7 DEF TextOK, AtCut, Quiet
<1>. QED  BY <1>7, <1>8 DEF SentenceInv

LEMMA Ending == ASSUME SentenceInv, ExtractionEnds PROVE SentenceInv'
<1>1. /\ Boundaries(buffer) = {} /\ extracting' = FALSE /\ buffer' = buffer /\ given' = given
      /\ said' = said /\ places' = places /\ flushed' = flushed
  BY DEF ExtractionEnds
<1>2. Taken' = Taken
  BY <1>1 DEF Taken
<1>3. TextOK' /\ AtCut' /\ Quiet'
  BY <1>1, <1>2 DEF SentenceInv, TextOK, AtCut, Quiet
<1>4. Placed'
  BY <1>1, <1>2 DEF SentenceInv, Placed
<1>. QED  BY <1>3, <1>4 DEF SentenceInv

\* When extractSentences() is done, no delimiter ends behind what was taken.
LEMMA NoneBehind ==
    ASSUME SentenceInv, ~extracting
    PROVE  \A e \in Ends(given) : e <= Taken
<1>1. TextOK /\ AtCut /\ Boundaries(buffer) = {}
  BY DEF SentenceInv, Quiet
<1>2. Taken \in 0 .. Len(given) /\ Ends(given) \subseteq 1 .. Len(given)
  BY <1>1, TakenIs, CutTypes DEF TextOK
<1>3. CASE flushed
  BY <1>1, <1>2, <1>3 DEF AtCut
<1>4. CASE ~flushed
  <2>1. {e \in Ends(given) : e > Taken} = {Taken + m : m \in Ends(buffer)}
    BY <1>1, <1>4, Behind DEF AtCut
  <2>2. Ends(buffer) = {}
    BY <1>1 DEF Ends
  <2>. QED  BY <1>2, <2>1, <2>2
<1>. QED  BY <1>3, <1>4

LEMMA Flushing == ASSUME SentenceInv, Flush PROVE SentenceInv'
<1>0. /\ TextOK /\ AtCut /\ Placed /\ ~flushed /\ ~extracting
      /\ (Taken = 0 \/ Taken \in Ends(given)) /\ \A e \in Ends(given) : e <= Taken
  BY NoneBehind DEF SentenceInv, AtCut, Flush
<1>1. flushed' = TRUE /\ Take(Len(buffer)) /\ given' = given /\ extracting' = extracting
  BY DEF Flush
<1>2. PICK n \in 0 .. Len(buffer) :
          n = Len(buffer) /\ Taken \in 0 .. Len(given) /\ Taken + n = Len(given)
  BY <1>0, TakenIs
<1>3. Taken \in Cuts(given) /\ Taken + n \in Cuts(given)
  BY <1>0, <1>2 DEF Cuts
<1>4. \A c \in Cuts(given) : ~(Taken < c /\ c < Taken + n)
  BY <1>0, <1>2 DEF Cuts
<1>5. /\ Taken' = Taken + n /\ Placed'
      /\ buffer' \in Seq(Bytes) /\ Len(buffer') <= Len(given')
      /\ buffer' = SubSeq(given', Taken' + 1, Len(given'))
  BY <1>0, <1>1, <1>2, <1>3, <1>4, Taking
<1>6. Boundaries(buffer') = {}
  <2>1. Taken' = Len(given) /\ Len(given) \in Nat
    BY <1>0, <1>2, <1>5, TakenIs
  <2>2. Len(buffer') = 0
    BY <1>1, <1>5, <2>1 DEF Taken
  <2>3. buffer' = <<>>
    BY <1>5, <2>2, NoText
  <2>. QED  BY <2>3, NoText
<1>7. TextOK' /\ AtCut' /\ Quiet'
  BY <1>0, <1>1, <1>2, <1>5, <1>6 DEF TextOK, AtCut, Quiet
<1>. QED  BY <1>5, <1>7 DEF SentenceInv

LEMMA SentenceStep == ASSUME SentenceInv, [SentenceNext]_sentenceVars PROVE SentenceInv'
<1>1. CASE \E n \in 1 .. (MaxText - Len(given)) :
              \E delta \in [1 .. n -> Bytes] : AppendDelta(delta)
  <2>0. PICK n \in 1 .. (MaxText - Len(given)) :
            \E delta \in [1 .. n -> Bytes] : AppendDelta(delta)
    BY <1>1
  <2>1. PICK delta \in [1 .. n -> Bytes] : AppendDelta(delta)
    BY <2>0
  <2>2. delta \in Seq(Bytes)
    <3>1. n \in Nat
      BY StreamingSentenceBufferAssumption DEF SentenceInv, TextOK
    <3>. QED  BY <3>1
  <2>. QED  BY <2>1, <2>2, Appending
<1>2. CASE ExtractSentence
  BY <1>2, Extracting
<1>3. CASE ExtractionEnds
  BY <1>3, Ending
<1>4. CASE Flush
  BY <1>4, Flushing
<1>5. CASE ClearBuffer
  BY <1>5, Clearing DEF ClearBuffer, SentenceInv, TextOK
<1>6. CASE UNCHANGED sentenceVars
  <2>1. /\ buffer' = buffer /\ extracting' = extracting /\ said' = said /\ given' = given
        /\ places' = places /\ flushed' = flushed /\ Taken' = Taken
    BY <1>6 DEF sentenceVars, Taken
  <2>2. TextOK' /\ AtCut' /\ Quiet'
    BY <2>1 DEF SentenceInv, TextOK, AtCut, Quiet
  <2>3. Placed'
    BY <2>1 DEF SentenceInv, Placed
  <2>. QED  BY <2>2, <2>3 DEF SentenceInv
<1>. QED  BY <1>1, <1>2, <1>3, <1>4, <1>5, <1>6 DEF SentenceNext

(***************************************************************************)
(* Whatever the text, and however it is cut into pieces, the sentences     *)
(* that leave are those of the whole text, in its order.                   *)
(***************************************************************************)
THEOREM CutAnywhere == SentenceSpec => []CuttingDoesNotMatter
<1>1. SentenceInit => SentenceInv
  BY Beginning DEF SentenceInit
<1>2. SentenceInv /\ [SentenceNext]_sentenceVars => SentenceInv'
  BY SentenceStep
<1>3. SentenceInv => CuttingDoesNotMatter
  <2> SUFFICES ASSUME SentenceInv, ~extracting PROVE CuttingDoesNotMatter
    BY DEF CuttingDoesNotMatter
  <2>1. TextOK /\ AtCut /\ Placed /\ \A e \in Ends(given) : e <= Taken
    BY NoneBehind DEF SentenceInv
  <2>2. /\ Taken \in 0 .. Len(given) /\ Cuts(given) \subseteq 0 .. Len(given)
        /\ \A p \in Pieces(given) : p[1] \in Cuts(given) /\ p[2] \in Cuts(given) /\ p[1] < p[2]
    BY <2>1, TakenIs, CutTypes DEF TextOK, Pieces
  <2>3. ASSUME NEW p \in Pieces(given) PROVE p[2] <= Taken <=> (p[2] \in Ends(given) \/ flushed)
    <3>1. CASE flushed
      BY <2>1, <2>2, <3>1 DEF AtCut
    <3>2. CASE ~flushed
      <4>1. p[2] \in Ends(given) => p[2] <= Taken
        BY <2>1
      <4>2. ASSUME p[2] <= Taken PROVE p[2] \in Ends(given)
        <5>1. Taken \in Ends(given) /\ Taken # 0
          BY <2>1, <2>2, <3>2, <4>2 DEF AtCut
        <5>2. p[2] # 0 /\ (p[2] = Len(given) => p[2] = Taken)
          BY <2>2, <4>2
        <5>. QED  BY <2>2, <5>1, <5>2 DEF Cuts
      <4>. QED  BY <3>2, <4>1, <4>2
    <3>. QED  BY <3>1, <3>2
  <2>4. {p \in Pieces(given) : p[2] <= Taken}
           = {p \in Pieces(given) : p[2] \in Ends(given) \/ flushed}
    BY <2>3
  <2>. QED  BY <2>1, <2>4 DEF Placed, CuttingDoesNotMatter
<1>. QED  BY <1>1, <1>2, <1>3, PTL DEF SentenceSpec
=============================================================================
