----------------------------- MODULE MCRagChain -----------------------------
(* Two questions through the RAG server beside one free client. *)
EXTENDS RagChain, TLC
=============================================================================
