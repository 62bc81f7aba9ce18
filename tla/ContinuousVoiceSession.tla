----------------------- MODULE ContinuousVoiceSession -----------------------
(***************************************************************************)
(* src/continuous_voice_session.cpp: the thread of run() records a         *)
(* question, transcribes it, and then has two threads of std::async: one   *)
(* answers (VoiceAssistant::processText), the other listens for the user   *)
(* barging in (src/sherpa_onnx_vad_audio_recorder.cpp).  Another thread    *)
(* may call stop().                                                        *)
(*                                                                         *)
(* VoiceAssistant is reduced to what a caller sees of it: stopPlayback()   *)
(* interrupts a request that has become active and has no effect on any    *)
(* other.  What it does inside, and the races in there, are the subject of *)
(* the module VoiceAssistant.  Audio, texts, timings and events are left   *)
(* out; whether the voice activity detector hears speech is a free choice. *)
(***************************************************************************)
EXTENDS Naturals

CONSTANT MaxTurns  \* config_.max_turns, 0: no limit

ASSUME MaxTurnsAssumption == MaxTurns \in Nat

VARIABLES
    main,           \* where run() is
    stopRequested,  \* stop_requested_
    pending,        \* pending_capture.has_value()
    turns,          \* completed_turns
    interruptions,  \* interruption_count
    error,          \* session_result.error is not empty
    answer,         \* the thread of answer_future and the request it serves
    barge,          \* where the thread of barge_future is
    speech,         \* speech_handler_called of its recording
    bargeOut,       \* its result
    bargeStarted,   \* barge_in_started
    bargeCancel, bargeStopped,   \* cancel_requested_, stopped_ of barge_in_recorder_
    normalStopped,  \* cancel_requested_ and stopped_ of normal_recorder_
    sourceStopped,  \* stopped of the microphone both recorders read
    stopper,        \* where the thread calling stop() is
    asked,          \* history: questions handed to processText
    answered,       \* history: calls of processText that returned ok
    barged,         \* history: turns in which the user barged in
    askedLate       \* history: questions asked after stop() had returned

runVars == <<main, stopRequested, pending, turns, interruptions, error>>
bargeVars == <<barge, speech, bargeOut, bargeStarted>>
flags == <<bargeCancel, bargeStopped, normalStopped, sourceStopped>>
history == <<asked, answered, barged, askedLate>>
vars == <<runVars, answer, bargeVars, flags, stopper, history>>

\* run() while the two threads of a turn exist
TurnPCs == {"poll", "pollAnswer", "pollBarge", "joinBargeOk", "joinBargeFailed",
            "joinAnswer", "joinAnswerOnly", "silence", "waitAnswer", "waitBarge"}
MainPCs == TurnPCs \cup {"off", "top", "record", "asr", "turnEnd", "done"}

RunTypeOK ==
    /\ main \in MainPCs
    /\ stopRequested \in BOOLEAN /\ pending \in BOOLEAN /\ error \in BOOLEAN
    /\ turns \in Nat
    /\ interruptions \in 0 .. turns

TurnTypeOK ==
    /\ answer \in {"none", "starting", "active", "interrupted", "ok", "failed", "cut"}
    /\ barge \in {"none", "enter", "listen", "handler", "ready"}
    /\ bargeOut \in {"none", "utterance", "failed"}
    /\ speech \in BOOLEAN /\ bargeStarted \in BOOLEAN

FlagTypeOK ==
    /\ bargeCancel \in BOOLEAN /\ bargeStopped \in BOOLEAN
    /\ normalStopped \in BOOLEAN /\ sourceStopped \in BOOLEAN
    /\ stopper \in {"idle", "normal", "barge", "playback", "done"}

HistoryTypeOK ==
    asked \in Nat /\ answered \in Nat /\ barged \in Nat /\ askedLate \in Nat

TypeOK == RunTypeOK /\ TurnTypeOK /\ FlagTypeOK /\ HistoryTypeOK

Init ==
    /\ main = "off"
    /\ stopRequested = FALSE /\ pending = FALSE /\ error = FALSE
    /\ turns = 0 /\ interruptions = 0
    /\ answer = "none"
    /\ barge = "none" /\ speech = FALSE /\ bargeOut = "none" /\ bargeStarted = FALSE
    /\ bargeCancel = FALSE /\ bargeStopped = FALSE
    /\ normalStopped = FALSE /\ sourceStopped = FALSE
    /\ stopper = "idle"
    /\ asked = 0 /\ answered = 0 /\ barged = 0 /\ askedLate = 0

-----------------------------------------------------------------------------
(* What the threads call.                                                  *)

\* VoiceAssistant::stopPlayback()
StopPlayback == answer' = IF answer = "active" THEN "interrupted" ELSE answer

\* The user barged in: the first to set barge_in_started counts the turn.
BargeIn ==
    /\ bargeStarted' = TRUE
    /\ barged' = IF bargeStarted THEN barged ELSE barged + 1

\* processText() has returned; "cut" is its failure after an interruption.
AnswerReady == answer \in {"ok", "failed", "cut"}

-----------------------------------------------------------------------------
(* The thread of run().                                                    *)

Goto(pc) == main' = pc

\* run() is called: it forgets an earlier stop(), and assistant_.start() may fail.
Run ==
    /\ main = "off"
    /\ stopRequested' = FALSE
    /\ \/ Goto("top") /\ UNCHANGED error
       \/ Goto("done") /\ error' = TRUE
    /\ UNCHANGED <<pending, turns, interruptions, answer, bargeVars, flags, stopper, history>>

EnoughTurns == MaxTurns > 0 /\ turns >= MaxTurns

\* The head of the loop: leave, take the utterance that interrupted the last
\* answer, or listen for a new one.
NextTurn ==
    /\ main = "top"
    /\ \/ (stopRequested \/ EnoughTurns) /\ Goto("done") /\ UNCHANGED pending
       \/ /\ ~stopRequested /\ ~EnoughTurns
          /\ Goto(IF pending THEN "asr" ELSE "record")
          /\ pending' = FALSE
    /\ UNCHANGED <<stopRequested, turns, interruptions, error, answer, bargeVars, flags,
                   stopper, history>>

\* normal_recorder_.recordUtterance() returns: a stopped recorder always fails,
\* another one if nobody speaks or the microphone does.
NormalRecorded ==
    /\ main = "record"
    /\ \/ stopRequested /\ Goto("done") /\ UNCHANGED error
       \/ ~stopRequested /\ ~normalStopped /\ Goto("asr") /\ UNCHANGED error
       \/ ~stopRequested /\ Goto("done") /\ error' = TRUE
    /\ UNCHANGED <<stopRequested, pending, turns, interruptions, answer, bargeVars, flags,
                   stopper, history>>

\* asr_backend_.transcribe() fails or returns no text.
AsrFails ==
    /\ main = "asr"
    /\ Goto("done")
    /\ error' = TRUE
    /\ UNCHANGED <<stopRequested, pending, turns, interruptions, answer, bargeVars, flags,
                   stopper, history>>

\* The question is known: both threads of the turn are launched.
Ask ==
    /\ main = "asr"
    /\ Goto("poll")
    /\ answer' = "starting"
    /\ barge' = "enter" /\ speech' = FALSE /\ bargeOut' = "none" /\ bargeStarted' = FALSE
    /\ asked' = asked + 1
    /\ askedLate' = IF stopper = "done" THEN askedLate + 1 ELSE askedLate
    /\ UNCHANGED <<stopRequested, pending, turns, interruptions, error, flags, stopper,
                   answered, barged>>

\* The condition of the polling loop; a stop cancels the recording first.
Poll ==
    /\ main = "poll"
    /\ \/ stopRequested /\ Goto("silence") /\ bargeCancel' = TRUE
       \/ ~stopRequested /\ Goto("pollAnswer") /\ UNCHANGED bargeCancel
    /\ UNCHANGED <<stopRequested, pending, turns, interruptions, error, answer, bargeVars,
                   bargeStopped, normalStopped, sourceStopped, stopper, history>>

\* answer_future.wait_for(0), and if it is ready get() and
\* cancelCurrentRecording().
PollAnswer ==
    /\ main = "pollAnswer"
    /\ \/ /\ AnswerReady
          /\ Goto(IF answer = "ok" THEN "joinBargeOk" ELSE "joinBargeFailed")
          /\ answer' = "none"
          /\ bargeCancel' = TRUE
       \/ ~AnswerReady /\ Goto("pollBarge") /\ UNCHANGED <<answer, bargeCancel>>
    /\ UNCHANGED <<stopRequested, pending, turns, interruptions, error, bargeVars,
                   bargeStopped, normalStopped, sourceStopped, stopper, history>>

\* Plausible bugs, for the properties to detect.

\* The turn ends without waiting for the recording it has cancelled.
JoinBargeNot ==
    /\ main \in {"joinBargeOk", "joinBargeFailed"}
    /\ Goto(IF main = "joinBargeOk" THEN "turnEnd" ELSE "done")
    /\ turns' = IF main = "joinBargeOk" THEN turns + 1 ELSE turns
    /\ error' = (error \/ main = "joinBargeFailed")
    /\ UNCHANGED <<stopRequested, pending, interruptions, answer, bargeVars, flags,
                   stopper, history>>

\* A failed answer is counted as a turn, barge-in or not.
JoinBargeCounts ==
    /\ main \in {"joinBargeOk", "joinBargeFailed"}
    /\ barge = "ready"
    /\ barge' = "none"
    /\ Goto("turnEnd") /\ turns' = turns + 1
    /\ UNCHANGED <<stopRequested, pending, interruptions, error, answer, speech, bargeOut,
                   bargeStarted, flags, stopper, history>>

\* The answer is over: barge_future.get() is ignored, and the turn completed
\* unless the answer failed with nobody barging in.
JoinBarge ==
    /\ main \in {"joinBargeOk", "joinBargeFailed"}
    /\ barge = "ready"
    /\ barge' = "none"
    /\ \/ /\ main = "joinBargeFailed" /\ ~bargeStarted
          /\ Goto("done") /\ error' = TRUE
          /\ UNCHANGED turns
       \/ /\ main = "joinBargeOk" \/ bargeStarted
          /\ Goto("turnEnd") /\ turns' = turns + 1
          /\ UNCHANGED error
    /\ UNCHANGED <<stopRequested, pending, interruptions, answer, speech, bargeOut,
                   bargeStarted, flags, stopper, history>>

\* A failed recording is taken from its future, and the polling goes on.
PollBargeGoesOn ==
    /\ main = "pollBarge"
    /\ Goto("poll")
    /\ barge' = IF barge = "ready" /\ bargeOut = "failed" THEN "none" ELSE barge
    /\ UNCHANGED <<stopRequested, pending, turns, interruptions, error, answer, speech,
                   bargeOut, bargeStarted, flags, stopper, history>>

\* barge_future.wait_for(0), and if it is ready get(): no utterance, or one
\* that interrupts the answer if the handler has not done so.
PollBarge ==
    /\ main = "pollBarge"
    /\ \/ /\ barge = "ready" /\ bargeOut = "failed"
          /\ Goto("joinAnswerOnly")
          /\ barge' = "none"
          /\ UNCHANGED <<answer, bargeStarted, barged>>
       \/ /\ barge = "ready" /\ bargeOut = "utterance"
          /\ Goto("joinAnswer")
          /\ barge' = "none"
          /\ BargeIn
          /\ IF bargeStarted THEN UNCHANGED answer ELSE StopPlayback
       \/ barge # "ready" /\ Goto("poll") /\ UNCHANGED <<barge, answer, bargeStarted, barged>>
    /\ UNCHANGED <<stopRequested, pending, turns, interruptions, error, speech, bargeOut,
                   flags, stopper, asked, answered, askedLate>>

\* The recording failed: answer_future.get() decides.
JoinAnswerOnly ==
    /\ main = "joinAnswerOnly"
    /\ AnswerReady
    /\ answer' = "none"
    /\ \/ answer # "ok" /\ Goto("done") /\ error' = TRUE /\ UNCHANGED turns
       \/ answer = "ok" /\ Goto("turnEnd") /\ turns' = turns + 1 /\ UNCHANGED error
    /\ UNCHANGED <<stopRequested, pending, interruptions, bargeVars, flags, stopper, history>>

\* An utterance was recorded: it is the next question, whatever the answer was.
JoinAnswer ==
    /\ main = "joinAnswer"
    /\ AnswerReady
    /\ answer' = "none"
    /\ Goto("turnEnd")
    /\ turns' = turns + 1
    /\ interruptions' = interruptions + 1
    /\ pending' = TRUE
    /\ UNCHANGED <<stopRequested, error, bargeVars, flags, stopper, history>>

\* Below the polling loop: a stop leaves the session, which cancels a
\* recording that no longer exists.
TurnEnd ==
    /\ main = "turnEnd"
    /\ Goto(IF stopRequested THEN "done" ELSE "top")
    /\ bargeCancel' = (bargeCancel \/ stopRequested)
    /\ UNCHANGED <<stopRequested, pending, turns, interruptions, error, answer, bargeVars,
                   bargeStopped, normalStopped, sourceStopped, stopper, history>>

\* The stop of a turn: stopPlayback(), then wait() for both threads.
Silence ==
    /\ main = "silence"
    /\ Goto("waitAnswer")
    /\ StopPlayback
    /\ UNCHANGED <<stopRequested, pending, turns, interruptions, error, bargeVars, flags,
                   stopper, history>>

WaitAnswer ==
    /\ main = "waitAnswer"
    /\ AnswerReady
    /\ Goto("waitBarge")
    /\ answer' = "none"
    /\ UNCHANGED <<stopRequested, pending, turns, interruptions, error, bargeVars, flags,
                   stopper, history>>

WaitBarge ==
    /\ main = "waitBarge"
    /\ barge = "ready"
    /\ Goto("done")
    /\ barge' = "none"
    /\ UNCHANGED <<stopRequested, pending, turns, interruptions, error, answer, speech,
                   bargeOut, bargeStarted, flags, stopper, history>>

Main == \/ NextTurn \/ NormalRecorded \/ AsrFails \/ Ask \/ Poll \/ PollAnswer
        \/ JoinBarge \/ PollBarge \/ JoinAnswerOnly \/ JoinAnswer \/ TurnEnd
        \/ Silence \/ WaitAnswer \/ WaitBarge

-----------------------------------------------------------------------------
(* The thread of answer_future, in VoiceAssistant::processText().          *)

\* setActiveState(): from here on stopPlayback() finds the request.
AnswerActive ==
    /\ answer = "starting"
    /\ answer' = "active"
    /\ UNCHANGED <<runVars, bargeVars, flags, stopper, history>>

\* processText() returns; an interrupted request fails, any other may.
AnswerReturns ==
    /\ \/ answer = "active" /\ answer' = "ok" /\ answered' = answered + 1
       \/ answer = "active" /\ answer' = "failed" /\ UNCHANGED answered
       \/ answer = "interrupted" /\ answer' = "cut" /\ UNCHANGED answered
    /\ UNCHANGED <<runVars, bargeVars, flags, stopper, asked, barged, askedLate>>

Answer == AnswerActive \/ AnswerReturns

-----------------------------------------------------------------------------
(* The thread of barge_future, in SherpaOnnxVadAudioRecorder.              *)

\* Entry: a pending cancellation is consumed and fails this recording.
BargeEnter ==
    /\ barge = "enter"
    /\ IF bargeCancel \/ bargeStopped \/ sourceStopped
       THEN barge' = "ready" /\ bargeOut' = "failed"
       ELSE barge' = "listen" /\ UNCHANGED bargeOut
    /\ bargeCancel' = FALSE
    /\ UNCHANGED <<runVars, answer, speech, bargeStarted, bargeStopped, normalStopped,
                   sourceStopped, stopper, history>>

\* A chunk in which speech is detected for the first time: the handler of the
\* session is called on this thread, and marks the turn as interrupted.
BargeDetects ==
    /\ barge = "listen"
    /\ ~bargeCancel /\ ~bargeStopped /\ ~speech
    /\ speech' = TRUE
    /\ barge' = IF bargeStarted THEN "listen" ELSE "handler"
    /\ BargeIn
    /\ UNCHANGED <<runVars, answer, bargeOut, flags, stopper, asked, answered, askedLate>>

\* The handler goes on to stopPlayback(), and the recording continues.
HandlerStops ==
    /\ barge = "handler"
    /\ barge' = "listen"
    /\ StopPlayback
    /\ UNCHANGED <<runVars, speech, bargeOut, bargeStarted, flags, stopper, history>>

\* The capture ends, and the flags decide before what was recorded does.
BargeEnds ==
    /\ barge = "listen"
    /\ barge' = "ready"
    /\ bargeOut' \in IF bargeCancel \/ bargeStopped THEN {"failed"} ELSE {"utterance", "failed"}
    /\ bargeCancel' = FALSE
    /\ UNCHANGED <<runVars, answer, speech, bargeStarted, bargeStopped, normalStopped,
                   sourceStopped, stopper, history>>

Barge == BargeEnter \/ BargeDetects \/ HandlerStops \/ BargeEnds

-----------------------------------------------------------------------------
(* The thread that calls stop().                                           *)

Stop ==
    /\ stopper = "idle"
    /\ stopper' = "normal"
    /\ stopRequested' = TRUE
    /\ UNCHANGED <<main, pending, turns, interruptions, error, answer, bargeVars, flags, history>>

\* stop() does not stop the normal recorder.
StopNormalNot ==
    /\ stopper = "normal"
    /\ stopper' = "barge"
    /\ UNCHANGED <<runVars, answer, bargeVars, flags, history>>

\* normal_recorder_.stop(), which also stops the microphone for good
StopNormal ==
    /\ stopper = "normal"
    /\ stopper' = "barge"
    /\ normalStopped' = TRUE /\ sourceStopped' = TRUE
    /\ UNCHANGED <<runVars, answer, bargeVars, bargeCancel, bargeStopped, history>>

\* barge_in_recorder_.stop()
StopBarge ==
    /\ stopper = "barge"
    /\ stopper' = "playback"
    /\ bargeCancel' = TRUE /\ bargeStopped' = TRUE
    /\ UNCHANGED <<runVars, answer, bargeVars, normalStopped, sourceStopped, history>>

StopAnswer ==
    /\ stopper = "playback"
    /\ stopper' = "done"
    /\ StopPlayback
    /\ UNCHANGED <<runVars, bargeVars, flags, history>>

Stopping == StopNormal \/ StopBarge \/ StopAnswer

-----------------------------------------------------------------------------
Next == Run \/ Main \/ Answer \/ Barge \/ Stop \/ Stopping

Spec == Init /\ [][Next]_vars

\* Nobody has to call run() or stop().  The threads are scheduled, processText()
\* returns (VoiceAssistant), and so does every recording: the detector gives up
\* after max_wait_seconds and cuts an utterance at max_speech_duration.
FairSpec == Spec /\ WF_vars(Main) /\ WF_vars(Answer) /\ WF_vars(Barge) /\ WF_vars(Stopping)

-----------------------------------------------------------------------------
(* Properties.                                                             *)

\* The futures of a turn never outlive it: run() neither records a question
\* nor returns while the answer or the listening thread of a turn is still
\* there, so that the microphone has one reader and no callback reaches
\* variables of a turn that is over; and each thread is joined only once.
TurnsAreJoined ==
    /\ main \notin TurnPCs => answer = "none" /\ barge = "none"
    /\ main \in {"joinAnswer", "joinAnswerOnly", "waitAnswer"} => answer # "none"
    /\ main \in {"joinBargeOk", "joinBargeFailed", "waitBarge"} => barge # "none"

\* The result of run(): as long as there is no error, every question asked is
\* counted as one turn when the next one is listened for, and each counted
\* turn was answered in full or the user barged in.  A silent failure of the
\* answer is never counted as a turn.
TurnsAreAccounted ==
    /\ main \in {"top", "record", "asr"} => turns = asked
    /\ main \in TurnPCs => turns + 1 = asked
    /\ ~error => turns <= answered + barged
    /\ interruptions <= barged
    /\ MaxTurns > 0 => asked <= MaxTurns

\* After stop() has returned at most one more question is asked, the one whose
\* recording had ended when the flags were set, even if run() lost the stop.
StopIsHeeded == askedLate <= 1

\* run() returns: no order in which the answer ends, the user speaks, a
\* recording fails, or stop() is called leaves it polling or in a join.
RunReturns == MaxTurns > 0 => (main = "top" ~> main = "done")

\* cancelCurrentRecording() cancels "only the current recordUtterance()"
\* (interruptible_audio_recorder.h): with no turn going on and no stop(),
\* there is no cancellation left for the next recording to fail by.
CancelsOnlyCurrent ==
    main \in {"top", "record", "asr"} /\ stopper = "idle" => ~bargeCancel

\* When the detector hears the user it stops the answer, but "the VAD goes on
\* recording the complete new question" (continuous_voice_session.cpp,
\* interruptible_audio_recorder.h): unless stop() is called, the end of an
\* answer that the user has interrupted does not cancel the recording of what
\* the user is saying.
SpeechIsNotCut ==
    [][answer = "cut" /\ speech /\ barge \in {"handler", "listen"} /\ stopper = "idle"
       => bargeCancel' = bargeCancel]_vars

=============================================================================
