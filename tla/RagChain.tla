------------------------------ MODULE RagChain ------------------------------
(***************************************************************************)
(* A streamed question through three processes: the C++ client             *)
(* (src/rag_stream_client.cpp, src/rag_control_client.cpp), the RAG server *)
(* (python/rag/python_rag_server.py), which relays what it gets, and the   *)
(* model server (LlmServer), whose other clients stay free.                *)
(***************************************************************************)
EXTENDS LlmServer

CONSTANT Questions   \* requests that come through the RAG server

ASSUME ChainAssumption == Questions \subseteq Requests

VARIABLES
    q,         \* RagStreamClient::query of a question: "new", "asked", "ok" or "failed"
    heard,     \* its expected_sequence: the parts its handler was called with
    asked,     \* questions in the RAG server's socket
    events,    \* events on their way to the client of a question
    orders,    \* cancellations in the RAG server's control socket, and its answers
    relay,     \* place of the RAG server's serving thread
    rcur,      \* the question it serves
    rseq,      \* sequence of its next event
    rheard,    \* parts it has received from the model server
    ractive,   \* _active_request_id
    rctl       \* question the RAG server's control thread forwards a cancellation of

queryVars == <<q, heard>>
cancelVars == <<orders, rctl>>
relayVars == <<relay, rcur, rseq, rheard, ractive>>
chainVars == <<queryVars, cancelVars, relayVars, asked, events>>
vars == <<serverVars, chainVars>>

RelayPCs == {"poll", "search", "nothing", "stream", "failed", "finished", "finally"}
Answers == {"none", "sent", "true", "false", "error"}

ChainTypeOK ==
    /\ TypeOK
    /\ q \in [Questions -> {"new", "asked", "ok", "failed"}]
    /\ heard \in [Questions -> 0..MaxChunks]
    /\ orders \in [Questions -> Answers]
    /\ asked \subseteq Questions /\ events \in [Questions -> Seq(Events)]
    /\ relay \in RelayPCs /\ rcur \in Questions \cup {NoReq}
    /\ rseq \in 0..MaxChunks /\ rheard \in 0..MaxChunks
    /\ ractive \in Questions \cup {NoReq} /\ rctl \in Questions \cup {NoReq}

ChainInit ==
    /\ Init
    /\ q = [r \in Questions |-> "new"] /\ heard = [r \in Questions |-> 0]
    /\ orders = [r \in Questions |-> "none"]
    /\ asked = {} /\ events = [r \in Questions |-> <<>>]
    /\ relay = "poll" /\ rcur = NoReq /\ rseq = 0 /\ rheard = 0
    /\ ractive = NoReq /\ rctl = NoReq
-----------------------------------------------------------------------------
(***************************************************************************)
(* RagStreamClient: a socket per query, a timeout per receive.             *)
(***************************************************************************)
Query(r) ==
    /\ q[r] = "new" /\ \A p \in Questions : q[p] # "asked"
    /\ q' = [q EXCEPT ![r] = "asked"]
    /\ asked' = asked \cup {r}
    /\ UNCHANGED <<serverVars, heard, cancelVars, relayVars, events>>

\* decodeEvent, validateEventIdentity and validateSequence, the handler, the switch.
\* The handler, or a check, may throw: the query fails.
QueryReceives(r) ==
    /\ q[r] = "asked"
    /\ events[r] # <<>>
    /\ LET e == Head(events[r])
           good == e.seq = heard[r]
       IN \/ /\ good /\ e.type = "chunk"
             /\ heard' = [heard EXCEPT ![r] = @ + 1]
             /\ events' = [events EXCEPT ![r] = Tail(@)]
             /\ UNCHANGED q
          \/ /\ good /\ e.type = "finished" /\ e.answer = heard[r]
             /\ q' = [q EXCEPT ![r] = "ok"]
             /\ events' = [events EXCEPT ![r] = <<>>]
             /\ UNCHANGED heard
          \/ /\ q' = [q EXCEPT ![r] = "failed"]
             /\ events' = [events EXCEPT ![r] = <<>>]
             /\ UNCHANGED heard
    /\ UNCHANGED <<serverVars, cancelVars, relayVars, asked>>

QueryTimesOut(r) ==
    /\ q[r] = "asked"
    /\ events[r] = <<>>
    /\ q' = [q EXCEPT ![r] = "failed"]
    /\ UNCHANGED <<serverVars, heard, cancelVars, relayVars, asked, events>>

\* RagControlClient::cancel, called while the question is on its way or later; it
\* returns what becomes of orders[r], or a failure when the transport gives up.
Cancel(r) ==
    /\ q[r] # "new" /\ orders[r] = "none"
    /\ orders' = [orders EXCEPT ![r] = "sent"]
    /\ UNCHANGED <<serverVars, queryVars, rctl, relayVars, asked, events>>
-----------------------------------------------------------------------------
(***************************************************************************)
(* The RAG server: one question at a time, relayed event by event.         *)
(***************************************************************************)
Relayed(r, e) == events' = IF q[r] = "asked" THEN [events EXCEPT ![r] = Append(@, e)] ELSE events

\* _set_active_request, then the search.
RelayBegins(r) ==
    /\ relay = "poll"
    /\ r \in asked
    /\ asked' = asked \ {r}
    /\ ractive' = r /\ rcur' = r /\ rseq' = 0 /\ rheard' = 0
    /\ relay' = "search"
    /\ UNCHANGED <<serverVars, queryVars, cancelVars, events>>

\* Nothing found: a fixed answer of one part, and its end.
RelayFindsNothing ==
    /\ relay = "search"
    /\ Relayed(rcur, [type |-> "chunk", seq |-> rseq, answer |-> 0])
    /\ made' = [made EXCEPT ![rcur] = 1]
    /\ rseq' = 1
    /\ relay' = "nothing"
    /\ UNCHANGED <<clientVars, arrived, inbox, main, cur, seq, outcome, active, modelVars, ctlVars,
                   whole, queryVars, cancelVars, rcur, rheard, ractive, asked>>

RelayEndsNothing ==
    /\ relay = "nothing"
    /\ Relayed(rcur, [type |-> "finished", seq |-> rseq, answer |-> 1])
    /\ whole' = whole \cup {rcur}
    /\ relay' = "finally"
    /\ UNCHANGED <<clientVars, arrived, inbox, main, cur, seq, outcome, active, modelVars, ctlVars,
                   made, queryVars, cancelVars, rcur, rseq, rheard, ractive, asked>>

\* The search throws, or the generator cannot stream: an error event, and the model
\* server is not asked.
RelayFails ==
    /\ relay = "search"
    /\ Relayed(rcur, [type |-> "error", seq |-> rseq, answer |-> 0])
    /\ relay' = "finally"
    /\ UNCHANGED <<serverVars, queryVars, cancelVars, rcur, rseq, rheard, ractive, asked>>

\* LlmZmqClient.generate_stream with the id of the question.
RelayAsks ==
    /\ relay = "search"
    /\ Submit(rcur, "stream")
    /\ relay' = "stream"
    /\ UNCHANGED <<queryVars, cancelVars, rcur, rseq, rheard, ractive, asked, events>>

RelayReceives ==
    /\ relay = "stream"
    /\ Take(rcur)
    /\ LET e == Head(inbox[rcur])
           good == e.seq = rheard
       IN \/ /\ good /\ e.type = "chunk"
             /\ Relayed(rcur, [type |-> "chunk", seq |-> rseq, answer |-> 0])
             /\ rseq' = rseq + 1 /\ rheard' = rheard + 1
             /\ UNCHANGED relay
          \/ /\ good /\ e.type = "finished" /\ e.answer = rheard
             /\ Relayed(rcur, [type |-> "finished", seq |-> rseq, answer |-> e.answer])
             /\ relay' = "finished"
             /\ UNCHANGED <<rseq, rheard>>
          \/ /\ ~good \/ e.type = "error" \/ (e.type = "finished" /\ e.answer # rheard)
             /\ relay' = "failed"
             /\ UNCHANGED <<rseq, rheard, events>>
    /\ UNCHANGED <<queryVars, cancelVars, rcur, ractive, asked>>

RelayTimesOut ==
    /\ relay = "stream"
    /\ inbox[rcur] = <<>>
    /\ relay' = "failed"
    /\ UNCHANGED <<serverVars, queryVars, cancelVars, rcur, rseq, rheard, ractive, asked, events>>

\* The generator closes its socket; a failure is reported in an event.
RelayHangsUp ==
    /\ relay \in {"failed", "finished"}
    /\ HangUp(rcur)
    /\ IF relay = "failed" THEN Relayed(rcur, [type |-> "error", seq |-> rseq, answer |-> 0])
                           ELSE UNCHANGED events
    /\ relay' = "finally"
    /\ UNCHANGED <<queryVars, cancelVars, rcur, rseq, rheard, ractive, asked>>

RelayEnds ==
    /\ relay = "finally"
    /\ ractive' = NoReq /\ rcur' = NoReq
    /\ relay' = "poll"
    /\ UNCHANGED <<serverVars, queryVars, cancelVars, rseq, rheard, asked, events>>

\* The control thread of the RAG server: it compares under the lock, releases
\* it, and forwards the cancellation by id.
RelayCompares(r) ==
    /\ rctl = NoReq
    /\ orders[r] = "sent"
    /\ \/ /\ ractive = r
          /\ rctl' = r
          /\ SendCancel(r)
          /\ UNCHANGED orders
       \/ /\ ractive # r
          /\ orders' = [orders EXCEPT ![r] = "false"]
          /\ UNCHANGED <<serverVars, rctl>>
    /\ UNCHANGED <<queryVars, relayVars, asked, events>>

\* The answer of the model server, or the timeout of waiting for it.
RelayAnswers ==
    /\ rctl # NoReq
    /\ \/ cancels[rctl] # "sent" /\ orders' = [orders EXCEPT ![rctl] = cancels[rctl]]
       \/ orders' = [orders EXCEPT ![rctl] = "error"]
    /\ rctl' = NoReq
    /\ UNCHANGED <<serverVars, queryVars, relayVars, asked, events>>
-----------------------------------------------------------------------------
ClientSide == \E r \in Questions : Query(r) \/ QueryReceives(r) \/ QueryTimesOut(r)
                                      \/ Cancel(r)
RelayStep == \/ \E r \in Questions : RelayBegins(r)
             \/ RelayFindsNothing \/ RelayEndsNothing \/ RelayFails \/ RelayAsks
             \/ RelayReceives \/ RelayTimesOut \/ RelayHangsUp \/ RelayEnds
RelayControl == (\E r \in Questions : RelayCompares(r)) \/ RelayAnswers
\* Another client of the model server.  It neither reads nor hangs up: what is sent to
\* it lies in its socket or is dropped, which makes no difference to anybody else.
OtherClient(r) == \/ \E k \in Kinds : Submit(r, k)
                  \/ kind[r] # "new" /\ SendCancel(r)
Server == /\ \/ ServerStep
             \/ Signal
             \/ \E r \in Requests \ Questions : OtherClient(r)
             \/ \E r \in Questions : LoseTail(r)
          /\ UNCHANGED chainVars

Next == ClientSide \/ RelayStep \/ RelayControl \/ Server
Spec == ChainInit /\ [][Next]_vars

\* The two threads of the model server run; nobody has to ask, cancel or signal.
FairSpec == /\ Spec
            /\ WF_vars(MainStep /\ UNCHANGED chainVars)
            /\ WF_vars(ControlStep /\ UNCHANGED chainVars)
-----------------------------------------------------------------------------
(***************************************************************************)
(* A caller hears a prefix of one generation, in order, and success means  *)
(* that it has heard it all (src/rag_stream_client.cpp:101-150): through   *)
(* two servers, their timeouts, cancellations, lost events, and            *)
(* generations that go on after their reader has left.                     *)
(***************************************************************************)
Stream == INSTANCE AnswerStream WITH
              Queries <- Questions, MaxParts <- MaxChunks, status <- q,
              produced <- [r \in Questions |-> made[r]],
              complete <- [r \in Questions |-> r \in whole],
              heard <- heard
ImplementsAnswerStream == Stream!SSpec
=============================================================================
