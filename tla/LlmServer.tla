----------------------------- MODULE LlmServer -----------------------------
(***************************************************************************)
(* The model server (src/llm_server.cpp): one thread serves the normal and *)
(* the streaming endpoint and runs the model, a second one answers         *)
(* cancellations.  They share active_request_id_ under active_mutex_, and  *)
(* the two flags of RkllmBackend, under no lock.                           *)
(*                                                                         *)
(* Clients are as free as the sockets let them be: they ask, read what     *)
(* arrives, hang up, and cancel whatever they like.  RagChain puts the     *)
(* program's own client in their place.                                    *)
(***************************************************************************)
EXTENDS Naturals, Sequences

CONSTANTS Requests,   \* request ids; each is used once, like the uuids of the clients
          MaxChunks,  \* bound of the model: chunks of one generation
          NoReq       \* no request: an empty id

ASSUME ServerAssumption == MaxChunks \in Nat \ {0} /\ NoReq \notin Requests

VARIABLES
    kind,      \* of a request: "new", or what was asked for
    arrived,   \* requests in the two server sockets
    open,      \* requests whose client still listens
    inbox,     \* events on their way to the client of a request
    cancels,   \* of a request: "none", "sent", or what the server answered
    signalled, \* ~g_running
    main,      \* place of the serving thread
    cur,       \* the request it serves
    seq,       \* its sequence counter
    outcome,   \* how the model run, then the generation, ended
    active,    \* active_request_id_
    busy,      \* RkllmBackend: running
    flag,      \* RkllmBackend: cancel_requested
    aborting,  \* rkllm_abort() has been accepted by the run in progress
    ctl,       \* place of the control thread
    target,    \* the request it is asked to cancel
    ctlRun,    \* LlmControlServer::running_
    made,      \* history: chunks the model made for a request
    whole      \* history: requests whose generation was carried to its end

clientVars == <<kind, open, signalled>>
modelVars == <<busy, flag, aborting>>
ctlVars == <<ctl, target, ctlRun, cancels>>
madeVars == <<made, whole>>
serverVars == <<clientVars, arrived, inbox, main, cur, seq, outcome, active,
                modelVars, ctlVars, madeVars>>

Kinds == {"stream", "normal", "invalid", "unframed"}
Events == [type : {"chunk", "finished", "error"}, seq : 0..MaxChunks, answer : 0..MaxChunks]
MainPCs == {"poll", "decode", "start", "generate", "ended", "reply", "clear",
            "unwind", "apologize", "joining", "stopped"}
CtlPCs == {"idle", "locked", "looked", "flagged", "exited"}

TypeOK ==
    /\ kind \in [Requests -> Kinds \cup {"new"}]
    /\ arrived \subseteq Requests /\ open \subseteq Requests
    /\ inbox \in [Requests -> Seq(Events)]
    /\ cancels \in [Requests -> {"none", "sent", "true", "false"}]
    /\ signalled \in BOOLEAN /\ ctlRun \in BOOLEAN
    /\ main \in MainPCs /\ cur \in Requests \cup {NoReq} /\ seq \in 0..MaxChunks
    /\ outcome \in {"none", "finished", "error", "stopped", "success", "cancelled", "failure"}
    /\ active \in Requests \cup {NoReq}
    /\ busy \in BOOLEAN /\ flag \in BOOLEAN /\ aborting \in BOOLEAN
    /\ ctl \in CtlPCs /\ target \in Requests \cup {NoReq}
    /\ made \in [Requests -> 0..MaxChunks] /\ whole \subseteq Requests

\* The control thread does not come to life when its endpoint cannot be bound.
Init ==
    /\ kind = [r \in Requests |-> "new"] /\ arrived = {} /\ open = {}
    /\ inbox = [r \in Requests |-> <<>>]
    /\ cancels = [r \in Requests |-> "none"]
    /\ signalled = FALSE
    /\ main = "poll" /\ cur = NoReq /\ seq = 0 /\ outcome = "none"
    /\ active = NoReq /\ busy = FALSE /\ flag = FALSE /\ aborting = FALSE
    /\ ctl \in {"idle", "exited"} /\ target = NoReq /\ ctlRun = (ctl = "idle")
    /\ made = [r \in Requests |-> 0] /\ whole = {}
-----------------------------------------------------------------------------
(***************************************************************************)
(* The clients and the operating system.                                   *)
(***************************************************************************)
Submit(r, k) ==
    /\ kind[r] = "new"
    /\ kind' = [kind EXCEPT ![r] = k]
    /\ open' = open \cup {r}
    /\ arrived' = arrived \cup {r}
    /\ UNCHANGED <<inbox, signalled, main, cur, seq, outcome, active, modelVars, ctlVars, madeVars>>

\* The next event leaves the socket; what the client makes of it is its affair.
Take(r) ==
    /\ r \in open
    /\ inbox[r] # <<>>
    /\ inbox' = [inbox EXCEPT ![r] = Tail(@)]
    /\ UNCHANGED <<clientVars, arrived, main, cur, seq, outcome, active, modelVars, ctlVars, madeVars>>

\* Closed with linger 0, as every client closes: what is under way to it is lost.
HangUp(r) ==
    /\ r \in open
    /\ open' = open \ {r}
    /\ inbox' = [inbox EXCEPT ![r] = <<>>]
    /\ UNCHANGED <<kind, signalled, arrived, main, cur, seq, outcome, active, modelVars, ctlVars, madeVars>>

SendCancel(r) ==
    /\ cancels[r] = "none"
    /\ cancels' = [cancels EXCEPT ![r] = "sent"]
    /\ UNCHANGED <<clientVars, arrived, inbox, main, cur, seq, outcome, active, modelVars,
                   ctl, target, ctlRun, madeVars>>

Signal ==
    /\ ~signalled
    /\ signalled' = TRUE
    /\ UNCHANGED <<kind, open, arrived, inbox, main, cur, seq, outcome, active, modelVars, ctlVars, madeVars>>

\* The server's sockets are closed with linger 0: the tail of a stream may be lost.
LoseTail(r) ==
    /\ main = "stopped"
    /\ inbox[r] # <<>>
    /\ inbox' = [inbox EXCEPT ![r] = SubSeq(@, 1, Len(@) - 1)]
    /\ UNCHANGED <<clientVars, arrived, main, cur, seq, outcome, active, modelVars, ctlVars, madeVars>>
-----------------------------------------------------------------------------
(***************************************************************************)
(* The serving thread.                                                     *)
(***************************************************************************)
\* A ROUTER socket drops what is for a peer that has gone.
Deliver(r, e) == inbox' = IF r \in open THEN [inbox EXCEPT ![r] = Append(@, e)] ELSE inbox

\* A signal may interrupt a send: cppzmq throws.
SendThrows == signalled

Rest == cur' = NoReq /\ seq' = 0 /\ outcome' = "none" /\ main' = "poll"

\* poll() may report both sockets; which of the waiting requests is next is open.
Serve(r) ==
    /\ main = "poll"
    /\ ~signalled
    /\ r \in arrived
    /\ arrived' = arrived \ {r}
    /\ cur' = r
    /\ main' = CASE kind[r] = "stream"   -> "decode"
                 [] kind[r] = "normal"   -> "start"
                 [] kind[r] = "invalid"  -> "apologize"
                 [] kind[r] = "unframed" -> "joining"
    /\ UNCHANGED <<clientVars, inbox, seq, outcome, active, modelVars, ctlVars, madeVars>>

\* Mutant: cancel() releases the mutex before it calls the backend.
LockReleased == TRUE

\* active_mutex_, which cancel() holds until the backend has been told.
LockFree == ctl \in {"idle", "exited"}

\* The refusal "another LLM stream request is already running" does not occur: NeverBusy.
SetActive ==
    /\ main = "decode"
    /\ LockFree
    /\ active' = cur
    /\ main' = "start"
    /\ UNCHANGED <<clientVars, arrived, inbox, cur, seq, outcome, modelVars, ctlVars, madeVars>>

StartRun ==
    /\ main = "start"
    /\ flag' = FALSE /\ busy' = TRUE /\ aborting' = FALSE
    /\ main' = "generate"
    /\ UNCHANGED <<clientVars, arrived, inbox, cur, seq, outcome, active, ctlVars, madeVars>>

\* resultCallback with a piece of text; only a stream has a callback of its own.
Chunk ==
    /\ main = "generate"
    /\ made[cur] < MaxChunks
    /\ made' = [made EXCEPT ![cur] = @ + 1]
    /\ IF kind[cur] = "stream"
       THEN /\ seq' = seq + 1
            /\ \/ /\ Deliver(cur, [type |-> "chunk", seq |-> seq, answer |-> 0])
                  /\ UNCHANGED <<main, outcome>>
               \/ /\ SendThrows
                  /\ main' = "ended" /\ outcome' = "error"
                  /\ UNCHANGED inbox
       ELSE UNCHANGED <<seq, inbox, main, outcome>>
    /\ UNCHANGED <<clientVars, arrived, cur, active, modelVars, ctlVars, whole>>

\* rkllm_run() returns: the answer is complete, the run failed, or it was aborted.
EndRun ==
    /\ main = "generate"
    /\ main' = "ended"
    /\ \/ /\ outcome' = "finished"
          /\ whole' = IF made[cur] > 0 THEN whole \cup {cur} ELSE whole
       \/ outcome' = "error" /\ UNCHANGED whole
       \/ aborting /\ outcome' = "stopped" /\ UNCHANGED whole
    /\ UNCHANGED <<clientVars, arrived, inbox, cur, seq, active, modelVars, ctlVars, made>>

\* RkllmBackend::run() after the model has returned.
Conclude ==
    /\ main = "ended"
    /\ busy' = FALSE /\ aborting' = FALSE
    /\ outcome' = IF flag THEN "cancelled"
                  ELSE IF outcome = "finished" /\ made[cur] > 0 THEN "success" ELSE "failure"
    /\ main' = "reply"
    /\ UNCHANGED <<clientVars, arrived, inbox, cur, seq, active, flag, ctlVars, madeVars>>

ErrorEvent == [type |-> "error", seq |-> seq, answer |-> 0]

\* Mutant: a failed generation is answered like a complete one.
FinalEventAnyway == [type |-> "finished", seq |-> seq, answer |-> made[cur]]

FinalEvent == IF outcome = "success"
              THEN [type |-> "finished", seq |-> seq, answer |-> made[cur]]
              ELSE ErrorEvent

Reply ==
    /\ main = "reply"
    /\ IF kind[cur] = "normal"
       THEN Rest /\ (Deliver(cur, FinalEvent) \/ (SendThrows /\ UNCHANGED inbox))
       ELSE /\ \/ Deliver(cur, FinalEvent) /\ main' = "clear"
               \/ SendThrows /\ main' = "unwind" /\ UNCHANGED inbox
            /\ UNCHANGED <<cur, seq, outcome>>
    /\ UNCHANGED <<clientVars, arrived, active, modelVars, ctlVars, madeVars>>

\* Mutant: no guard, the active request is cleared at the end of the function.
ClearActiveAtEnd ==
    /\ main \in {"clear", "unwind"}
    /\ LockFree
    /\ active' = IF main = "clear" /\ active = cur THEN NoReq ELSE active
    /\ IF main = "clear" THEN Rest ELSE main' = "apologize" /\ UNCHANGED <<cur, seq, outcome>>
    /\ UNCHANGED <<clientVars, arrived, inbox, modelVars, ctlVars, madeVars>>

\* The guard clears the active request on the normal way out and while an
\* exception unwinds, before the handler of the exception runs.
ClearActive ==
    /\ main \in {"clear", "unwind"}
    /\ LockFree
    /\ active' = IF active = cur THEN NoReq ELSE active
    /\ IF main = "clear" THEN Rest ELSE main' = "apologize" /\ UNCHANGED <<cur, seq, outcome>>
    /\ UNCHANGED <<clientVars, arrived, inbox, modelVars, ctlVars, madeVars>>

\* The catch blocks: one error event, or, if that throws or the id is unknown, a warning.
Apologize ==
    /\ main = "apologize"
    /\ Rest
    /\ \/ Deliver(cur, ErrorEvent)
       \/ (SendThrows \/ kind[cur] = "invalid") /\ UNCHANGED inbox
    /\ UNCHANGED <<clientVars, arrived, active, modelVars, ctlVars, madeVars>>

\* Mutant: stop() only joins.
LeaveLoopOnly ==
    /\ main = "poll" /\ signalled
    /\ main' = "joining"
    /\ UNCHANGED <<clientVars, arrived, inbox, cur, seq, outcome, active, modelVars, ctlVars, madeVars>>

\* The loop has ended, or receiveRouterRequest() has thrown: LlmControlServer::stop().
LeaveLoop ==
    /\ \/ main = "poll" /\ signalled
       \/ main = "joining" /\ ctlRun
    /\ ctlRun' = FALSE
    /\ main' = "joining"
    /\ UNCHANGED <<clientVars, arrived, inbox, cur, seq, outcome, active, modelVars,
                   ctl, target, cancels, madeVars>>

JoinControl ==
    /\ main = "joining" /\ ~ctlRun
    /\ ctl = "exited"
    /\ main' = "stopped"
    /\ UNCHANGED <<clientVars, arrived, inbox, cur, seq, outcome, active, modelVars, ctlVars, madeVars>>
-----------------------------------------------------------------------------
(***************************************************************************)
(* The control thread.  cancel() holds active_mutex_ from the comparison   *)
(* to the answer of the backend.                                           *)
(***************************************************************************)
AnswerCancel(r, a) == cancels' = [cancels EXCEPT ![r] = a] /\ ctl' = "idle" /\ target' = NoReq

Compare(r) ==
    /\ ctl = "idle"
    /\ cancels[r] = "sent"
    /\ IF active = r
       THEN ctl' = "locked" /\ target' = r /\ UNCHANGED cancels
       ELSE AnswerCancel(r, "false")
    /\ UNCHANGED <<clientVars, arrived, inbox, main, cur, seq, outcome, active, modelVars, ctlRun, madeVars>>

\* RkllmBackend::cancel(): is anything running?
LookRunning ==
    /\ ctl = "locked"
    /\ IF busy THEN ctl' = "looked" /\ UNCHANGED <<target, cancels>> ELSE AnswerCancel(target, "false")
    /\ UNCHANGED <<clientVars, arrived, inbox, main, cur, seq, outcome, active, modelVars, ctlRun, madeVars>>

RaiseFlag ==
    /\ ctl = "looked"
    /\ ctl' = "flagged"
    /\ flag' = TRUE
    /\ UNCHANGED <<clientVars, arrived, inbox, main, cur, seq, outcome, active, busy, aborting,
                   target, ctlRun, cancels, madeVars>>

\* rkllm_abort() may be refused, and may come when the run is over.
Abort ==
    /\ ctl = "flagged"
    /\ \/ /\ aborting' = (main = "generate")
          /\ AnswerCancel(target, "true")
          /\ UNCHANGED flag
       \/ /\ flag' = FALSE
          /\ AnswerCancel(target, "false")
          /\ UNCHANGED aborting
    /\ UNCHANGED <<clientVars, arrived, inbox, main, cur, seq, outcome, active, busy, ctlRun, madeVars>>

ExitControl ==
    /\ ctl = "idle"
    /\ ~ctlRun
    /\ ctl' = "exited"
    /\ UNCHANGED <<clientVars, arrived, inbox, main, cur, seq, outcome, active, modelVars,
                   target, ctlRun, cancels, madeVars>>
-----------------------------------------------------------------------------
MainStep == \/ \E r \in Requests : Serve(r)
            \/ SetActive \/ StartRun \/ Chunk \/ EndRun \/ Conclude \/ Reply
            \/ ClearActive \/ Apologize \/ LeaveLoop \/ JoinControl
ControlStep == \/ \E r \in Requests : Compare(r)
               \/ LookRunning \/ RaiseFlag \/ Abort \/ ExitControl
ServerStep == MainStep \/ ControlStep
ClientStep(r) == (\E k \in Kinds : Submit(r, k)) \/ Take(r) \/ HangUp(r) \/ SendCancel(r)

ServerNext == ServerStep \/ Signal \/ \E r \in Requests : ClientStep(r) \/ LoseTail(r)
ServerSpec == Init /\ [][ServerNext]_serverVars
-----------------------------------------------------------------------------
(***************************************************************************)
(* A cancellation hits the request it names and no other                   *)
(* (src/llm_stream_service.cpp:135-147): a run that is being aborted, or   *)
(* whose result is thrown away as cancelled, was asked to be cancelled.    *)
(***************************************************************************)
CancelIsAimed ==
    aborting \/ outcome = "cancelled" => cur # NoReq /\ cancels[cur] # "none"

(***************************************************************************)
(* The service is free for every request it begins: whatever way the last  *)
(* one ended, also by an exception, it is not the active one any more      *)
(* (lines 54-60, 149-168).                                                 *)
(***************************************************************************)
NeverBusy == main \in {"poll", "decode"} => active = NoReq

(***************************************************************************)
(* The server ends when it is told to, and whenever its loop is left: the  *)
(* control thread is told before it is joined                              *)
(* (src/llm_control_server.cpp:53-59).                                     *)
(***************************************************************************)
ShutdownCompletes == signalled \/ main = "joining" ~> main = "stopped"
=============================================================================
