--------------------------- MODULE VoiceAssistant ---------------------------
(***************************************************************************)
(* src/voice_assistant.cpp: one request at a time flows through            *)
(*                                                                         *)
(*   processText --sentence_queue_--> ttsWorker --audio_queue_-->          *)
(*                                                     playbackWorker      *)
(*                                                                         *)
(* while stopPlayback(), called by any thread, and stop() interrupt it.    *)
(* Each thread advances in the steps in which it touches shared state: a   *)
(* critical section of one mutex, one queue operation, one access of the   *)
(* player's stop flag.  The queues are the atomic ones of AtomicQueue.     *)
(*                                                                         *)
(* A task is [req, seq]: sentence number seq of a request, or its          *)
(* end-of-request mark when seq = 0.  Text, audio and timings are left     *)
(* out.                                                                    *)
(***************************************************************************)
EXTENDS Naturals, Sequences, Functions

CONSTANTS NumRequests,      \* calls of processText, named 1 .. NumRequests
          MaxSentences,     \* bound: sentences in one answer
          SentenceCapacity, \* sentence_queue_capacity
          AudioCapacity,    \* audio_queue_capacity
          Interrupters,     \* threads that call stopPlayback()
          MaxInterrupts,    \* bound: calls of stopPlayback() per thread
          Stopper           \* the thread that calls stop()

ASSUME ConstantsAssumption ==
    /\ NumRequests \in Nat \ {0}
    /\ MaxSentences \in Nat \ {0}
    /\ SentenceCapacity \in Nat \ {0}
    /\ AudioCapacity \in Nat \ {0}
    /\ MaxInterrupts \in Nat
    /\ Stopper \notin Interrupters

Requests == 1 .. NumRequests
Threads == Interrupters \cup {Stopper}

Task == [req : Requests, seq : 0 .. MaxSentences]
NoTask == [req |-> 0, seq |-> 0]
NoRequest == 0

VARIABLES
    started, stopped,       \* started_, stopped_
    proc,                   \* where processText() is
    req,                    \* the request it serves, or served last
    gotChunk,               \* received_chunk_count > 0
    burst,                  \* sentences of the running loop not pushed yet
    made,                   \* sentences the sentence buffer has yielded
    result,                 \* what processText() returned
    active,                 \* active_state_
    failed, completed, spoken, \* RequestState: failed, completed, spoken_sentence_count
    sentenceQ, sentenceClosed, audioQ, audioClosed,
    tts, ttsTask,           \* where ttsWorker() is, and its task
    play, playTask,         \* where playbackWorker() is, and its task
    stopFlag,               \* stop_requested_ of the player
    intr, target, calls,    \* stopPlayback()/stop(): place, its copy of active_state_, calls left
    heard,                  \* history: the sentences whose playback began
    stale,                  \* history: playbacks begun after the request had failed
    robbed                  \* history: requests that lost a task or a playback to
                            \* an interrupt, or a worker's exit, not aimed at them

life == <<started, stopped>>
procVars == <<proc, req, gotChunk, burst, made, result, active>>
stateVars == <<failed, completed, spoken>>
queueVars == <<sentenceQ, sentenceClosed, audioQ, audioClosed>>
ttsVars == <<tts, ttsTask>>
playVars == <<play, playTask, stopFlag>>
intrVars == <<intr, target, calls>>
history == <<heard, stale, robbed>>
vars == <<life, procVars, stateVars, queueVars, ttsVars, playVars, intrVars, history>>

ProcPCs == {"idle", "checked", "query", "handler", "full", "flushing",
            "flush", "end", "wait", "clear"}
TtsPCs == {"off", "pop", "synth", "recheck", "push", "exited"}
PlayPCs == {"off", "pop", "complete", "check", "play", "writing", "played", "exited"}
IntrPCs == {"idle", "read", "fail", "complete", "clearS", "clearA", "flag", "cancel",
            "closeS", "closeA", "joinTts", "joinPlay", "done"}

ProcessTypeOK ==
    /\ started \in BOOLEAN /\ stopped \in BOOLEAN
    /\ proc \in ProcPCs
    /\ req \in 0 .. NumRequests
    /\ gotChunk \in BOOLEAN
    /\ burst \in 0 .. MaxSentences
    /\ made \in [Requests -> 0 .. MaxSentences]
    /\ result \in [Requests -> {"none", "ok", "failed"}]
    /\ active \in 0 .. NumRequests

StateTypeOK ==
    /\ failed \in [Requests -> BOOLEAN]
    /\ completed \in [Requests -> BOOLEAN]
    /\ spoken \in [Requests -> Nat]

QueueTypeOK ==
    /\ sentenceQ \in Seq(Task) /\ sentenceClosed \in BOOLEAN
    /\ audioQ \in Seq(Task) /\ audioClosed \in BOOLEAN

WorkerTypeOK ==
    /\ tts \in TtsPCs
    /\ ttsTask \in Task \cup {NoTask}
    /\ play \in PlayPCs
    /\ playTask \in Task \cup {NoTask}
    /\ stopFlag \in BOOLEAN

InterruptTypeOK ==
    /\ intr \in [Threads -> IntrPCs]
    /\ target \in [Threads -> 0 .. NumRequests]
    /\ calls \in [Threads -> Nat]

HistoryTypeOK ==
    /\ heard \in [Requests -> Seq(0 .. MaxSentences)]
    /\ stale \in [Requests -> Nat]
    /\ robbed \in SUBSET Requests

TypeOK == /\ ProcessTypeOK /\ StateTypeOK /\ QueueTypeOK
          /\ WorkerTypeOK /\ InterruptTypeOK /\ HistoryTypeOK

Init ==
    /\ started = FALSE /\ stopped = FALSE
    /\ proc = "idle"
    /\ req = 0
    /\ gotChunk = FALSE
    /\ burst = 0
    /\ made = [r \in Requests |-> 0]
    /\ result = [r \in Requests |-> "none"]
    /\ active = NoRequest
    /\ failed = [r \in Requests |-> FALSE]
    /\ completed = [r \in Requests |-> FALSE]
    /\ spoken = [r \in Requests |-> 0]
    /\ sentenceQ = <<>> /\ sentenceClosed = FALSE
    /\ audioQ = <<>> /\ audioClosed = FALSE
    /\ tts = "off" /\ ttsTask = NoTask
    /\ play = "off" /\ playTask = NoTask
    /\ stopFlag = FALSE
    /\ intr = [i \in Threads |-> "idle"]
    /\ target = [i \in Threads |-> NoRequest]
    /\ calls = [i \in Threads |-> IF i = Stopper THEN 1 ELSE MaxInterrupts]
    /\ heard = [r \in Requests |-> <<>>]
    /\ stale = [r \in Requests |-> 0]
    /\ robbed = {}
-----------------------------------------------------------------------------
\* failState(); the error text it keeps is left out.
FailState(r) == failed' = [failed EXCEPT ![r] = TRUE]

CompleteState(r) == completed' = [completed EXCEPT ![r] = TRUE]

EndOf(r) == [req |-> r, seq |-> 0]
-----------------------------------------------------------------------------
(* start(): the queues of a failed start stay closed for good. *)
Start ==
    /\ ~started /\ ~stopped
    /\ \/ /\ started' = TRUE
          /\ tts' = "pop" /\ play' = "pop"
          /\ UNCHANGED <<stopped, sentenceClosed, audioClosed>>
       \/ /\ stopped' = TRUE
          /\ sentenceClosed' = TRUE /\ audioClosed' = TRUE
          /\ UNCHANGED <<started, tts, play>>
    /\ UNCHANGED <<procVars, stateVars, sentenceQ, audioQ, ttsTask, playTask, stopFlag,
                   intrVars, history>>
-----------------------------------------------------------------------------
(* processText(): process_mutex_ is held from ProcStart to ProcReturn. *)

ProcStart ==
    /\ proc = "idle"
    /\ req < NumRequests
    /\ req' = req + 1
    /\ gotChunk' = FALSE
    /\ IF started /\ ~stopped
       THEN proc' = "checked" /\ UNCHANGED result
       ELSE result' = [result EXCEPT ![req + 1] = "failed"] /\ UNCHANGED proc
    /\ UNCHANGED <<burst, made, active, life, stateVars, queueVars, ttsVars,
                   playVars, intrVars, history>>

ProcSetActive ==
    /\ proc = "checked"
    /\ active' = req
    /\ proc' = "query"
    /\ UNCHANGED <<req, gotChunk, burst, made, result, life, stateVars, queueVars,
                   ttsVars, playVars, intrVars, history>>

\* The buffer yields k sentences, which the loop at label `next` will push.
Yield(k, next, otherwise) ==
    /\ made[req] + k <= MaxSentences
    /\ made' = [made EXCEPT ![req] = @ + k]
    /\ burst' = k
    /\ proc' = IF k > 0 THEN next ELSE otherwise

\* The chunk handler; it drops the chunk of a request that has failed.
ProcChunk ==
    /\ proc = "query"
    /\ ~failed[req]
    /\ gotChunk' = TRUE
    /\ \E k \in 0 .. MaxSentences : Yield(k, "handler", "query")
    /\ UNCHANGED <<req, result, active, life, stateVars, queueVars, ttsVars,
                   playVars, intrVars, history>>

AfterPush == [handler |-> "query", full |-> "flushing", flush |-> "end"][proc]

\* enqueueSentence(): the loops do not look at the request's state again.
ProcPush ==
    /\ proc \in {"handler", "full", "flush"}
    /\ \/ /\ sentenceClosed
          /\ FailState(req)
          /\ burst' = 0
          /\ proc' = AfterPush
          /\ UNCHANGED sentenceQ
       \/ /\ ~sentenceClosed
          /\ Len(sentenceQ) < SentenceCapacity
          /\ sentenceQ' = Append(sentenceQ, [req |-> req, seq |-> made[req] - burst + 1])
          /\ burst' = burst - 1
          /\ proc' = IF burst = 1 THEN AfterPush ELSE proc
          /\ UNCHANGED failed
    /\ UNCHANGED <<req, gotChunk, made, result, active, life, completed, spoken,
                   sentenceClosed, audioQ, audioClosed, ttsVars, playVars, intrVars, history>>

\* query() ends, by an answer, a failure or an exception.  A backend that
\* streamed nothing hands over its whole answer at once.
ProcQueryReturns ==
    /\ proc = "query"
    /\ \/ /\ failed[req]
          /\ proc' = "end"
          /\ UNCHANGED <<failed, burst, made>>
       \/ /\ ~failed[req]
          /\ FailState(req)
          /\ proc' = "end"
          /\ UNCHANGED <<burst, made>>
       \/ /\ ~failed[req]
          /\ gotChunk
          /\ proc' = "flushing"
          /\ UNCHANGED <<failed, burst, made>>
       \/ /\ ~failed[req]
          /\ ~gotChunk
          /\ \E k \in 0 .. MaxSentences : Yield(k, "full", "flushing")
          /\ UNCHANGED failed
    /\ gotChunk' = FALSE   \* not read again
    /\ UNCHANGED <<req, result, active, life, completed, spoken, queueVars, ttsVars, playVars,
                   intrVars, history>>

\* sentence_buffer_.flush() yields the unterminated rest of the answer, if any.
ProcFlush ==
    /\ proc = "flushing"
    /\ \/ failed[req] /\ proc' = "end" /\ UNCHANGED <<burst, made>>
       \/ ~failed[req] /\ \E k \in {0, 1} : Yield(k, "flush", "end")
    /\ UNCHANGED <<req, gotChunk, result, active, life, stateVars, queueVars,
                   ttsVars, playVars, intrVars, history>>

\* enqueueEndOfRequest()
ProcEnd ==
    /\ proc = "end"
    /\ \/ /\ sentenceClosed
          /\ FailState(req)
          /\ CompleteState(req)
          /\ UNCHANGED sentenceQ
       \/ /\ ~sentenceClosed
          /\ Len(sentenceQ) < SentenceCapacity
          /\ sentenceQ' = Append(sentenceQ, EndOf(req))
          /\ UNCHANGED <<failed, completed>>
    /\ proc' = "wait"
    /\ UNCHANGED <<req, gotChunk, burst, made, result, active, life, spoken,
                   sentenceClosed, audioQ, audioClosed, ttsVars, playVars, intrVars, history>>

\* waitForCompletion(), then the result under the lock of the state
ProcWait ==
    /\ proc = "wait"
    /\ completed[req]
    /\ result' = [result EXCEPT ![req] = IF failed[req] THEN "failed" ELSE "ok"]
    /\ proc' = "clear"
    /\ UNCHANGED <<req, gotChunk, burst, made, active, life, stateVars, queueVars,
                   ttsVars, playVars, intrVars, history>>

\* clearActiveState(), then the return that releases process_mutex_
ProcReturn ==
    /\ proc = "clear"
    /\ active' = IF active = req THEN NoRequest ELSE active
    /\ proc' = "idle"
    /\ UNCHANGED <<req, gotChunk, burst, made, result, life, stateVars, queueVars,
                   ttsVars, playVars, intrVars, history>>

Process == \/ ProcSetActive \/ ProcChunk \/ ProcPush \/ ProcQueryReturns
           \/ ProcFlush \/ ProcEnd \/ ProcWait \/ ProcReturn
-----------------------------------------------------------------------------
(* ttsWorker() *)

Kept(r) == robbed \cup ({t.req : t \in Range(sentenceQ)} \ {r})

\* Mutant: the failed request's end mark is dropped with its sentences.
TtsPopDropsFailed ==
    /\ tts = "pop"
    /\ sentenceQ # <<>>
    /\ sentenceQ' = Tail(sentenceQ)
    /\ IF failed[Head(sentenceQ).req]
       THEN UNCHANGED <<tts, ttsTask>>
       ELSE /\ ttsTask' = Head(sentenceQ)
            /\ tts' = IF Head(sentenceQ).seq = 0 THEN "push" ELSE "synth"
    /\ UNCHANGED <<life, procVars, stateVars, sentenceClosed, audioQ, audioClosed, playVars,
                   intrVars, history>>

TtsPop ==
    /\ tts = "pop"
    /\ \/ /\ sentenceQ # <<>>
          /\ ttsTask' = Head(sentenceQ)
          /\ sentenceQ' = Tail(sentenceQ)
          /\ tts' = IF Head(sentenceQ).seq = 0 THEN "push" ELSE "synth"
       \/ /\ sentenceQ = <<>> /\ sentenceClosed
          /\ tts' = "exited"
          /\ UNCHANGED <<ttsTask, sentenceQ>>
    /\ UNCHANGED <<life, procVars, stateVars, sentenceClosed, audioQ, audioClosed, playVars,
                   intrVars, history>>

TtsDrop == tts' = "pop" /\ ttsTask' = NoTask

\* Mutant: a sentence that cannot be synthesized is skipped.
TtsSynthSkips ==
    /\ tts = "synth"
    /\ \/ TtsDrop
       \/ tts' = "recheck" /\ UNCHANGED ttsTask
    /\ UNCHANGED <<life, procVars, stateVars, queueVars, playVars, intrVars, history>>

\* stateFailed(), then synthesize(), whose failure fails the request
TtsSynth ==
    /\ tts = "synth"
    /\ \/ failed[ttsTask.req] /\ TtsDrop /\ UNCHANGED failed
       \/ ~failed[ttsTask.req] /\ tts' = "recheck" /\ UNCHANGED <<ttsTask, failed>>
       \/ ~failed[ttsTask.req] /\ FailState(ttsTask.req) /\ TtsDrop
    /\ UNCHANGED <<life, procVars, completed, spoken, queueVars, playVars, intrVars, history>>

\* stateFailed() again: the request may have been interrupted meanwhile.
TtsRecheck ==
    /\ tts = "recheck"
    /\ IF failed[ttsTask.req] THEN TtsDrop ELSE tts' = "push" /\ UNCHANGED ttsTask
    /\ UNCHANGED <<life, procVars, stateVars, queueVars, playVars, intrVars, history>>

\* On a closed audio queue the worker survives an end mark but not a sentence.
TtsPush ==
    /\ tts = "push"
    /\ \/ /\ audioClosed
          /\ FailState(ttsTask.req)
          /\ CompleteState(ttsTask.req)
          /\ ttsTask' = NoTask
          /\ IF ttsTask.seq = 0
             THEN tts' = "pop" /\ UNCHANGED robbed
             ELSE tts' = "exited" /\ robbed' = Kept(ttsTask.req)
          /\ UNCHANGED audioQ
       \/ /\ ~audioClosed
          /\ Len(audioQ) < AudioCapacity
          /\ audioQ' = Append(audioQ, ttsTask)
          /\ TtsDrop
          /\ UNCHANGED <<failed, completed, robbed>>
    /\ UNCHANGED <<life, procVars, spoken, sentenceQ, sentenceClosed, audioClosed, playVars,
                   intrVars, heard, stale>>

Tts == TtsPop \/ TtsSynth \/ TtsRecheck \/ TtsPush
-----------------------------------------------------------------------------
(* playbackWorker() *)

PlayPop ==
    /\ play = "pop"
    /\ \/ /\ audioQ # <<>>
          /\ playTask' = Head(audioQ)
          /\ audioQ' = Tail(audioQ)
          /\ play' = IF Head(audioQ).seq = 0 THEN "complete" ELSE "check"
       \/ /\ audioQ = <<>> /\ audioClosed
          /\ play' = "exited"
          /\ UNCHANGED <<playTask, audioQ>>
    /\ UNCHANGED <<life, procVars, stateVars, sentenceQ, sentenceClosed, audioClosed, ttsVars,
                   stopFlag, intrVars, history>>

PlayNext == play' = "pop" /\ playTask' = NoTask

\* Mutant: the end mark is consumed, nobody is told.
PlayCompleteSilently ==
    /\ play = "complete"
    /\ PlayNext
    /\ UNCHANGED <<life, procVars, stateVars, queueVars, ttsVars, stopFlag, intrVars, history>>

PlayComplete ==
    /\ play = "complete"
    /\ CompleteState(playTask.req)
    /\ PlayNext
    /\ UNCHANGED <<life, procVars, failed, spoken, queueVars, ttsVars, stopFlag, intrVars,
                   history>>

\* Mutant: no check before play().
PlayCheckNothing ==
    /\ play = "check"
    /\ play' = "play"
    /\ UNCHANGED <<life, procVars, stateVars, queueVars, ttsVars, playTask, stopFlag, intrVars,
                   history>>

PlayCheck ==
    /\ play = "check"
    /\ IF failed[playTask.req] THEN PlayNext ELSE play' = "play" /\ UNCHANGED playTask
    /\ UNCHANGED <<life, procVars, stateVars, queueVars, ttsVars, stopFlag, intrVars, history>>

\* The player's play() forgets an earlier stop() and starts to write.
PlayStart ==
    /\ play = "play"
    /\ stopFlag' = FALSE
    /\ play' = "writing"
    /\ heard' = [heard EXCEPT ![playTask.req] = Append(@, playTask.seq)]
    /\ stale' = IF failed[playTask.req] THEN [stale EXCEPT ![playTask.req] = @ + 1] ELSE stale
    /\ UNCHANGED <<life, procVars, stateVars, queueVars, ttsVars, playTask, intrVars, robbed>>

\* A stopped playback is a success for the player; so is a finished one.
PlayEnd ==
    /\ play = "writing"
    /\ \/ play' = "played" /\ UNCHANGED <<playTask, failed>>
       \/ FailState(playTask.req) /\ PlayNext
    /\ UNCHANGED <<life, procVars, completed, spoken, queueVars, ttsVars, stopFlag, intrVars,
                   history>>

\* A sentence counts as spoken unless its request has failed meanwhile.
PlayCount ==
    /\ play = "played"
    /\ spoken' = [spoken EXCEPT ![playTask.req] = IF failed[playTask.req] THEN @ ELSE @ + 1]
    /\ PlayNext
    /\ UNCHANGED <<life, procVars, failed, completed, queueVars, ttsVars, stopFlag, intrVars,
                   history>>

Play == PlayPop \/ PlayComplete \/ PlayCheck \/ PlayStart \/ PlayEnd \/ PlayCount
-----------------------------------------------------------------------------
(* stopPlayback() by an interrupter, and stop() by the Stopper: both run    *)
(* interruptActiveRequest(), which works on its copy of active_state_.      *)

IntrGoto(i, label) == intr' = [intr EXCEPT ![i] = label]

Call(i) == /\ intr[i] = "idle"
           /\ calls[i] > 0
           /\ calls' = [calls EXCEPT ![i] = @ - 1]

ReadActive(i) == /\ target' = [target EXCEPT ![i] = active]
                 /\ IntrGoto(i, IF active = NoRequest THEN "clearS" ELSE "fail")

StopPlayback(i) ==
    /\ i \in Interrupters
    /\ Call(i)
    /\ ReadActive(i)
    /\ UNCHANGED <<life, procVars, stateVars, queueVars, ttsVars, playVars, history>>

\* stop() marks itself first; it does nothing if it was called before, or if
\* start() failed.
Stop ==
    /\ Call(Stopper)
    /\ stopped' = TRUE
    /\ IntrGoto(Stopper, IF stopped THEN "done" ELSE "read")
    /\ UNCHANGED <<started, procVars, stateVars, queueVars, ttsVars, playVars, target, history>>

IntrRead(i) ==
    /\ intr[i] = "read"
    /\ ReadActive(i)
    /\ UNCHANGED <<life, procVars, stateVars, queueVars, ttsVars, playVars, calls, history>>

\* Mutants of IntrFail: the request is not failed; it is not completed.
IntrFailForgets(i) ==
    /\ intr[i] = "fail"
    /\ IntrGoto(i, "complete")
    /\ UNCHANGED <<life, procVars, stateVars, queueVars, ttsVars, playVars, target, calls, history>>

IntrFailOnly(i) ==
    /\ intr[i] = "fail"
    /\ FailState(target[i])
    /\ IntrGoto(i, "clearS")
    /\ UNCHANGED <<life, procVars, completed, spoken, queueVars, ttsVars, playVars, target, calls,
                   history>>

IntrFail(i) ==
    /\ intr[i] = "fail"
    /\ FailState(target[i])
    /\ IntrGoto(i, "complete")
    /\ UNCHANGED <<life, procVars, completed, spoken, queueVars, ttsVars, playVars, target, calls,
                   history>>

IntrComplete(i) ==
    /\ intr[i] = "complete"
    /\ CompleteState(target[i])
    /\ IntrGoto(i, "clearS")
    /\ UNCHANGED <<life, procVars, failed, spoken, queueVars, ttsVars, playVars, target, calls,
                   history>>

Others(q, i) == {t.req : t \in Range(q)} \ {target[i]}

ClearSentences(i) ==
    /\ intr[i] = "clearS"
    /\ robbed' = robbed \cup Others(sentenceQ, i)
    /\ sentenceQ' = <<>>
    /\ IntrGoto(i, "clearA")
    /\ UNCHANGED <<life, procVars, stateVars, sentenceClosed, audioQ, audioClosed, ttsVars,
                   playVars, target, calls, heard, stale>>

ClearAudio(i) ==
    /\ intr[i] = "clearA"
    /\ robbed' = robbed \cup Others(audioQ, i)
    /\ audioQ' = <<>>
    /\ IntrGoto(i, "flag")
    /\ UNCHANGED <<life, procVars, stateVars, sentenceQ, sentenceClosed, audioClosed, ttsVars,
                   playVars, target, calls, heard, stale>>

\* audio_player_.stop(): a running playback is cut short.
StopPlayer(i) ==
    /\ intr[i] = "flag"
    /\ stopFlag' = TRUE
    /\ robbed' = robbed \cup (IF play = "writing" THEN {playTask.req} \ {target[i]} ELSE {})
    /\ IntrGoto(i, "cancel")
    /\ UNCHANGED <<life, procVars, stateVars, queueVars, ttsVars, play, playTask, target, calls,
                   heard, stale>>

\* Whatever cancel() answers, the query it was sent for may end in any way.
Cancel(i) ==
    /\ intr[i] = "cancel"
    /\ IntrGoto(i, IF i = Stopper THEN "closeS" ELSE "idle")
    /\ target' = [target EXCEPT ![i] = NoRequest]
    /\ UNCHANGED <<life, procVars, stateVars, queueVars, ttsVars, playVars, calls, history>>

Interrupt(i) == \/ IntrRead(i) \/ IntrFail(i) \/ IntrComplete(i) \/ ClearSentences(i)
                \/ ClearAudio(i) \/ StopPlayer(i) \/ Cancel(i)

CloseSentences ==
    /\ intr[Stopper] = "closeS"
    /\ sentenceClosed' = TRUE
    /\ IntrGoto(Stopper, "closeA")
    /\ UNCHANGED <<life, procVars, stateVars, sentenceQ, audioQ, audioClosed, ttsVars, playVars,
                   target, calls, history>>

\* Mutant: stop() closes only the sentence queue.
CloseAudioNot ==
    /\ intr[Stopper] = "closeA"
    /\ IntrGoto(Stopper, "joinTts")
    /\ UNCHANGED <<life, procVars, stateVars, queueVars, ttsVars, playVars, target, calls, history>>

CloseAudio ==
    /\ intr[Stopper] = "closeA"
    /\ audioClosed' = TRUE
    /\ IntrGoto(Stopper, "joinTts")
    /\ UNCHANGED <<life, procVars, stateVars, sentenceQ, sentenceClosed, audioQ, ttsVars, playVars,
                   target, calls, history>>

JoinTts ==
    /\ intr[Stopper] = "joinTts"
    /\ tts \in {"off", "exited"}
    /\ IntrGoto(Stopper, "joinPlay")
    /\ UNCHANGED <<life, procVars, stateVars, queueVars, ttsVars, playVars, target, calls, history>>

JoinPlayback ==
    /\ intr[Stopper] = "joinPlay"
    /\ play \in {"off", "exited"}
    /\ started' = FALSE
    /\ IntrGoto(Stopper, "done")
    /\ UNCHANGED <<stopped, procVars, stateVars, queueVars, ttsVars, playVars, target, calls,
                   history>>

Shutdown == CloseSentences \/ CloseAudio \/ JoinTts \/ JoinPlayback
-----------------------------------------------------------------------------
Next == \/ Start \/ ProcStart \/ Process \/ Tts \/ Play
        \/ Stop \/ Shutdown
        \/ \E i \in Threads : StopPlayback(i) \/ Interrupt(i)

Spec == Init /\ [][Next]_vars

\* Threads inside a call run on: query(), synthesize(), play() and cancel() return.
\* Nobody has to call start(), processText(), stopPlayback() or stop().
FairSpec == /\ Spec
            /\ WF_vars(Process) /\ WF_vars(Tts) /\ WF_vars(Play)
            /\ WF_vars(Shutdown)
            /\ \A i \in Threads : WF_vars(Interrupt(i))
-----------------------------------------------------------------------------
(***************************************************************************)
(* A request that processText() reports as ok has had every sentence of    *)
(* its answer played once, in order, and counted (lines 316-332), unless   *)
(* an interrupt aimed at another request took some of it away.             *)
(***************************************************************************)
OkMeansAllSpoken ==
    \A r \in Requests : result[r] = "ok" /\ r \notin robbed
                           => /\ heard[r] = [n \in 1 .. made[r] |-> n]
                              /\ spoken[r] = made[r]

(***************************************************************************)
(* No sentence is played twice or out of order, whatever the interrupts;   *)
(* none is skipped but by a failure of its request.                        *)
(***************************************************************************)
SpokenInOrder ==
    \A r \in Requests :
        /\ \A m, n \in DOMAIN heard[r] : m < n => heard[r][m] < heard[r][n]
        /\ r \notin robbed /\ ~failed[r] => heard[r] = [n \in 1 .. Len(heard[r]) |-> n]

(***************************************************************************)
(* While processText() waits for its pipeline (line 304), its end mark is  *)
(* where a worker that still runs will reach it: no failed sentence, no    *)
(* closed queue and no interrupt aimed at the request loses it.            *)
(***************************************************************************)
Holds(q, t) == \E n \in 1 .. Len(q) : q[n] = t

EndInFlight(r) ==
    \/ tts # "exited" /\ Holds(sentenceQ, EndOf(r))
    \/ ttsTask = EndOf(r)
    \/ play # "exited" /\ Holds(audioQ, EndOf(r))
    \/ playTask = EndOf(r)

WaitIsCovered ==
    proc = "wait" /\ ~completed[req] /\ req \notin robbed => EndInFlight(req)

(***************************************************************************)
(* What the threads rely on about each other's places.  There are no       *)
(* workers before start(), and a worker exits only behind the closed queue *)
(* it serves; the queues close in the order of the pipeline (lines         *)
(* 144-145) and only on an assistant that will never say again that it is  *)
(* running, also when start() has failed (110-124); a worker holds a task  *)
(* exactly while it serves it; an interrupt clears the queues only after   *)
(* it has completed the request it found (lines 570-579).                  *)
(***************************************************************************)
NoWorkersBeforeStart ==
    /\ ~started /\ ~stopped => tts = "off" /\ play = "off"
    /\ intr[Stopper] # "idle" => stopped

WorkersOutliveQueues ==
    /\ tts = "exited" => sentenceClosed
    /\ play = "exited" => audioClosed
    /\ audioClosed \/ intr[Stopper] = "closeA" => sentenceClosed

ClosedForGood == sentenceClosed => stopped

TasksInPlace ==
    /\ ttsTask = NoTask <=> tts \in {"off", "pop", "exited"}
    /\ tts \in {"synth", "recheck"} => ttsTask.seq # 0
    /\ playTask = NoTask <=> play \in {"off", "pop", "exited"}
    /\ play = "complete" <=> playTask # NoTask /\ playTask.seq = 0

RequestInPlace ==
    /\ proc # "idle" => req # 0
    /\ proc \in {"handler", "full", "flush"} <=> burst # 0
    /\ burst # 0 => burst <= made[req]

CompletesBeforeClearing ==
    \A i \in Threads :
        intr[i] \in {"clearS", "clearA", "flag", "cancel"} /\ target[i] # NoRequest
            => completed[target[i]]

ControlOK == /\ NoWorkersBeforeStart /\ WorkersOutliveQueues /\ ClosedForGood
             /\ TasksInPlace /\ RequestInPlace /\ CompletesBeforeClearing

(***************************************************************************)
(* Requests do not leak into each other: a request begins on a pipeline    *)
(* that holds only what interrupts have left behind, so every task of an   *)
(* older request, its end mark included, belongs to a failed one.          *)
(***************************************************************************)
LeftoversAreFailed ==
    \A t \in Range(sentenceQ) \cup Range(audioQ) \cup {ttsTask, playTask} :
        t # NoTask /\ (t.req # req \/ proc = "idle") => failed[t.req]

(***************************************************************************)
(* The checks before play() (line 448) leave a window of one task: at most *)
(* one sentence of a request is started after the request has failed.      *)
(***************************************************************************)
AtMostOneStale == \A r \in Requests : stale[r] <= 1

(***************************************************************************)
(* processText() leaves its wait, whoever interrupts it and whatever       *)
(* fails, if no interrupt aimed elsewhere robbed it.                       *)
(***************************************************************************)
ProcessTextReturns == (proc = "wait" /\ req \notin robbed) ~> (proc # "wait" \/ req \in robbed)

(***************************************************************************)
(* stop() joins both workers and returns, wherever the pipeline was when   *)
(* it was called (lines 128-159).                                          *)
(***************************************************************************)
StopReturns == (intr[Stopper] = "read") ~> (intr[Stopper] = "done")

(***************************************************************************)
(* The comment of line 572: once interrupted, "processText ... should      *)
(* not go on waiting for the audio pipeline": stated for every call, it    *)
(* must return.                                                            *)
(***************************************************************************)
InterruptNeverStrands == (proc = "wait") ~> (proc # "wait")

(***************************************************************************)
(* The comment of lines 576-577: stopPlayback() stops the local output     *)
(* first, before it waits for the cancellation: while it does, the request *)
(* it was called for is not being played.                                  *)
(***************************************************************************)
OutputStopsFirst ==
    \A i \in Interrupters :
        intr[i] = "cancel" /\ play = "writing" /\ playTask.req = target[i] => stopFlag
=============================================================================
