-------------------------- MODULE RetrieverRuntime --------------------------
(***************************************************************************)
(* Loading of the retrievers (src/retriever_runtime.cpp over               *)
(* bm25_retriever.cpp, dense_retriever.cpp, dense_vector_index.cpp,        *)
(* bge_embedder.cpp) from three files that others write meanwhile: the     *)
(* knowledge base, which is edited, and the vectors and the metadata that  *)
(* python/embedding/build_dense_index.py derives from it and may fail to.  *)
(*                                                                         *)
(* An edit makes a new version of the knowledge base, whose text may be    *)
(* one that was there before.  What a file or a retriever holds is the     *)
(* version it was made from; the code sees no versions and compares what   *)
(* their texts have: a fingerprint, chunk ids, a number of rows.           *)
(***************************************************************************)
EXTENDS Integers, Sequences

CONSTANTS
    Texts,      \* contents of the knowledge base
    Ids,        \* [Texts -> Seq(Nat)]: the chunk ids of a text, in its order
    MaxEdits,   \* bound on the edits of the knowledge base
    MaxLoads,   \* bound on the calls of load()
    MaxBuilds   \* bound on the runs of the index builder

ASSUME RetrieverRuntimeAssumption ==
    /\ Ids \in [Texts -> Seq(Nat)]
    /\ MaxEdits \in Nat /\ MaxLoads \in Nat /\ MaxBuilds \in Nat

None == 0

VARIABLES
    texts,      \* the knowledge base: the texts it has had, the present one last
    vectors, meta,  \* the index; meta = [print, of]: what was fingerprinted, what gave the ids
    building, read, print, builds,  \* the builder
    config,     \* the configured backend and whether results are filtered
    loading,    \* place in load(), or "out", "loaded", "failed"
    parts,      \* the retrievers that exist
    activeRetriever,\* the one in use
    sparse, documents, index, rows, \* versions that were loaded: Bm25Retriever's documents,
                                    \* DenseRetriever's, the metadata, the vectors
    first,      \* the version at the first reading of a load (ghost)
    loads

files == <<texts, vectors, meta>>
builder == <<building, read, print, builds>>
content == <<sparse, documents, index, rows>>
runtimeVars == <<files, builder, config, loading, parts, activeRetriever, content, first, loads>>

\* a version is a place in the history of the knowledge base, and the present one its end
Versions == 1 .. Len(texts)
chunks == Len(texts)
Text(version) == texts[version]
ChunkIds(version) == Ids[Text(version)]

NoMeta == [print |-> None, of |-> None]
Backends == {"bm25", "dense", "hybrid"}
Steps == {"sparse", "documents", "metadata", "vectors", "print", "order", "embedder", "activate"}

RuntimeTypeOK ==
    /\ texts \in Seq(Texts) /\ Len(texts) \in 1 .. 1 + MaxEdits
    /\ vectors \in Versions \cup {None}
    /\ {meta, index} \subseteq [print : Versions \cup {None}, of : Versions \cup {None}]
    /\ building \in {"idle", "encode", "write", "sign", "publish"}
    /\ {read, print, sparse, documents, rows, first} \subseteq Versions \cup {None}
    /\ config \in [backend : Backends, filter : BOOLEAN]
    /\ loading \in Steps \cup {"out", "loaded", "failed"}
    /\ parts \subseteq {"bm25", "dense", "hybrid", "filter"}
    /\ activeRetriever \in {"none", "bm25", "dense", "hybrid", "filter"}
    /\ builds \in 0..MaxBuilds /\ loads \in 0..MaxLoads

RuntimeInit ==
    /\ \E text \in Texts : texts = <<text>>
    /\ vectors = None /\ meta = NoMeta
    /\ building = "idle" /\ read = None /\ print = None /\ builds = 0
    /\ config \in [backend : Backends, filter : BOOLEAN]
    /\ loading = "out" /\ parts = {} /\ activeRetriever = "none"
    /\ sparse = None /\ documents = None /\ index = NoMeta /\ rows = None
    /\ first = None /\ loads = 0
-----------------------------------------------------------------------------
(***************************************************************************)
(* Someone edits the knowledge base; the builder reads it, encodes it,     *)
(* replaces the vectors, signs the knowledge base as it is by then, and    *)
(* replaces the metadata.  It may die at any point.                        *)
(***************************************************************************)
loader == <<config, loading, parts, activeRetriever, content, first, loads>>

Edit ==
    /\ chunks <= MaxEdits
    /\ \E text \in Texts \ {Text(chunks)} : texts' = Append(texts, text)
    /\ UNCHANGED <<vectors, meta, builder, loader>>

ReadChunks ==
    /\ building = "idle" /\ builds < MaxBuilds
    /\ building' = "encode" /\ read' = chunks /\ builds' = builds + 1
    /\ UNCHANGED <<files, print, loader>>

Encode ==
    /\ building = "encode" /\ building' = "write"
    /\ UNCHANGED <<files, read, print, builds, loader>>

WriteVectors ==
    /\ building = "write" /\ building' = "sign" /\ vectors' = read
    /\ UNCHANGED <<texts, meta, read, print, builds, loader>>

Sign ==
    /\ building = "sign" /\ building' = "publish" /\ print' = chunks
    /\ UNCHANGED <<files, read, builds, loader>>

WriteMetadata ==
    /\ building = "publish" /\ building' = "idle"
    /\ meta' = [print |-> print, of |-> read] /\ read' = None /\ print' = None
    /\ UNCHANGED <<texts, vectors, builds, loader>>

BuilderDies ==
    /\ building # "idle" /\ building' = "idle" /\ read' = None /\ print' = None
    /\ UNCHANGED <<files, builds, loader>>
-----------------------------------------------------------------------------
(***************************************************************************)
(* load(), one action for each reading of a file.                          *)
(***************************************************************************)
world == <<files, builder>>
Loading(step) == loading = step
Then(step) == loading' = step
Ready == Loading("out") \/ Loading("loaded") \/ Loading("failed")

\* RetrieverRuntime::Impl::clear, with what the retrievers held
Clear == parts' = {} /\ activeRetriever' = "none" /\ sparse' = None /\ documents' = None
         /\ index' = NoMeta /\ rows' = None

Load ==
    /\ Ready /\ loads < MaxLoads /\ loads' = loads + 1 /\ Clear /\ first' = chunks
    /\ Then(IF config.backend = "dense" THEN "documents" ELSE "sparse")
    /\ UNCHANGED <<world, config>>

\* any check, opening, parsing or constructor may fail, and load() then clears everything
Fail ==
    /\ loading \in Steps /\ Clear /\ Then("failed")
    /\ UNCHANGED <<world, config, first, loads>>

LoadSparse ==
    /\ Loading("sparse") /\ sparse' = chunks /\ parts' = parts \cup {"bm25"}
    /\ Then(IF config.backend = "bm25" THEN "activate" ELSE "documents")
    /\ UNCHANGED <<world, config, activeRetriever, documents, index, rows, first, loads>>

LoadDocuments ==
    /\ Loading("documents") /\ documents' = chunks /\ parts' = parts \cup {"dense"} /\ Then("metadata")
    /\ UNCHANGED <<world, config, activeRetriever, sparse, index, rows, first, loads>>

ReadMetadata ==
    /\ Loading("metadata") /\ meta # NoMeta /\ index' = meta /\ Then("vectors")
    /\ UNCHANGED <<world, config, parts, activeRetriever, sparse, documents, rows, first, loads>>

\* the file must exist and be as long as the rows the metadata tells of
ReadVectors ==
    /\ Loading("vectors") /\ vectors # None
    /\ Len(ChunkIds(vectors)) = Len(ChunkIds(index.of))
    /\ rows' = vectors /\ Then("print")
    /\ UNCHANGED <<world, config, parts, activeRetriever, sparse, documents, index, first, loads>>

\* a plausible bug: an index with the right chunks in the right order counts as current
CheckNothing ==
    /\ Loading("print") /\ Then("order")
    /\ UNCHANGED <<world, config, parts, activeRetriever, content, first, loads>>

CheckFingerprint ==
    /\ Loading("print") /\ Text(index.print) = Text(chunks) /\ Then("order")
    /\ UNCHANGED <<world, config, parts, activeRetriever, content, first, loads>>

CheckOrder ==
    /\ Loading("order") /\ ChunkIds(index.of) = ChunkIds(documents) /\ Then("embedder")
    /\ UNCHANGED <<world, config, parts, activeRetriever, content, first, loads>>

LoadEmbedder ==
    /\ Loading("embedder") /\ Then("activate")
    /\ parts' = IF config.backend = "hybrid" THEN parts \cup {"hybrid"} ELSE parts
    /\ UNCHANGED <<world, config, activeRetriever, content, first, loads>>

Activate ==
    /\ Loading("activate") /\ Then("loaded")
    /\ IF config.filter THEN activeRetriever' = "filter" /\ parts' = parts \cup {"filter"}
                        ELSE activeRetriever' = config.backend /\ UNCHANGED parts
    /\ UNCHANGED <<world, config, content, first, loads>>
-----------------------------------------------------------------------------
RuntimeNext ==
    \/ Edit \/ ReadChunks \/ Encode \/ WriteVectors \/ Sign \/ WriteMetadata \/ BuilderDies
    \/ Load \/ Fail \/ LoadSparse \/ LoadDocuments \/ ReadMetadata \/ ReadVectors
    \/ CheckFingerprint \/ CheckOrder \/ LoadEmbedder \/ Activate

RuntimeSpec == RuntimeInit /\ [][RuntimeNext]_runtimeVars
-----------------------------------------------------------------------------
\* what a retriever holds references to
Uses(part) ==
    CASE part = "filter" -> {config.backend}
      [] part = "hybrid" -> {"bm25", "dense"}
      [] OTHER -> {}

\* The knowledge base had the text of the metadata, was given another one that the vectors
\* are from, and was given the first one back: no check of load() can see it.
BroughtBack == index.of < rows /\ rows < documents /\ Text(index.of) = Text(documents)

(***************************************************************************)
(* What load() has accepted belongs together (the checks of                *)
(* src/dense_retriever.cpp:34-117, in that order): the documents have the  *)
(* ids and as many rows as the index, whatever was edited or built         *)
(* meanwhile.  Without an edit during this load the sparse index and the   *)
(* fingerprinted text are those of the documents; and if the build         *)
(* fingerprinted what it had read, so is every vector, however a builder   *)
(* died between its two files, but for one case: a later build replaced    *)
(* the vectors and not the metadata, and its text was taken back.  No      *)
(* retriever refers to one that does not exist.                            *)
(***************************************************************************)
LoadedBelongsTogether ==
    Loading("loaded") =>
        /\ activeRetriever \in parts /\ \A p \in parts : Uses(p) \subseteq parts
        /\ "dense" \in parts =>
             /\ ChunkIds(index.of) = ChunkIds(documents)
             /\ Len(ChunkIds(rows)) = Len(ChunkIds(documents))
             /\ chunks = first => Text(index.print) = Text(documents)
             /\ chunks = first /\ Text(index.print) = Text(index.of)
                  => Text(rows) = Text(documents) \/ BroughtBack
        /\ "hybrid" \in parts /\ chunks = first => sparse = documents
=============================================================================
