---------------------------- MODULE AnswerStream ----------------------------
(***************************************************************************)
(* What a streamed question promises to its caller, whatever lies between  *)
(* the caller and the model: the handler hears the parts of one generation *)
(* in order and each once, and the query succeeds only when the generation *)
(* was completed and heard to its end.  It may fail at any time.  Sockets, *)
(* servers, timeouts and cancellations belong to RagChain, which           *)
(* implements this specification.                                          *)
(***************************************************************************)
EXTENDS Naturals

CONSTANTS Queries,     \* the questions asked
          MaxParts     \* bound of the model: parts of one answer

VARIABLES status,      \* of a question: "new", "asked", "ok" or "failed"
          produced,    \* parts that were generated for it
          complete,    \* its generation was carried to the end
          heard        \* parts its handler was called with

svars == <<status, produced, complete, heard>>

SInit == /\ status = [q \in Queries |-> "new"]
         /\ produced = [q \in Queries |-> 0]
         /\ complete = [q \in Queries |-> FALSE]
         /\ heard = [q \in Queries |-> 0]

PutQuery(q) == /\ status[q] = "new"
               /\ status' = [status EXCEPT ![q] = "asked"]
               /\ UNCHANGED <<produced, complete, heard>>

\* The generation goes on even when its caller has given up.
Produce(q) == /\ status[q] # "new"
              /\ ~complete[q]
              /\ produced[q] < MaxParts
              /\ produced' = [produced EXCEPT ![q] = @ + 1]
              /\ UNCHANGED <<status, complete, heard>>

Complete(q) == /\ produced[q] > 0
               /\ complete' = [complete EXCEPT ![q] = TRUE]
               /\ UNCHANGED <<status, produced, heard>>

Hear(q) == /\ status[q] = "asked"
           /\ heard[q] < produced[q]
           /\ heard' = [heard EXCEPT ![q] = @ + 1]
           /\ UNCHANGED <<status, produced, complete>>

Succeed(q) == /\ status[q] = "asked"
              /\ complete[q]
              /\ heard[q] = produced[q]
              /\ status' = [status EXCEPT ![q] = "ok"]
              /\ UNCHANGED <<produced, complete, heard>>

Fail(q) == /\ status[q] = "asked"
           /\ status' = [status EXCEPT ![q] = "failed"]
           /\ UNCHANGED <<produced, complete, heard>>

SNext == \E q \in Queries : PutQuery(q) \/ Produce(q) \/ Complete(q) \/ Hear(q)
                               \/ Succeed(q) \/ Fail(q)

SSpec == SInit /\ [][SNext]_svars
=============================================================================
