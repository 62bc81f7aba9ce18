----------------------------- MODULE Microphone -----------------------------
(***************************************************************************)
(* One capture device (AlsaPcmStreamSource) shared by the two voice        *)
(* activity recorders of the session (SherpaOnnxVadAudioRecorder).  The    *)
(* session's threads record one utterance at a time; while the barge-in    *)
(* recorder listens, the session thread may cancel it, and a third thread  *)
(* may stop everything.  Samples are left out: a chunk may or may not hold *)
(* the start of speech or complete a segment.                              *)
(***************************************************************************)
EXTENDS Naturals

CONSTANTS
    MaxWait,         \* max_wait_seconds, in chunks
    MaxRecordings    \* bound on the calls of recordUtterance()

ASSUME MicAssumption == MaxWait \in Nat \ {0} /\ MaxRecordings \in Nat

VARIABLES
    cancelRequested,  \* cancel_requested_ of each recorder
    recStopped,       \* stopped_ of each recorder
    srcStopped,       \* stopped of the source
    captureCancelled, \* capture_cancelled_ of the source
    handle,           \* the PCM device: "ready" or "dropped"
    who,              \* the recorder that is or was last called
    at,               \* place of the recording thread
    calls,            \* recordUtterance() calls so far
    err,              \* what the last failed snd_pcm_readi() met
    stream,           \* PcmStreamResult::ok
    speech,           \* speech_started, with which the handler is called
    waited,           \* received_frames, in chunks
    timedOut,         \* timed_out
    utterance,        \* "none", "whole", or "flushed" before it was over
    result,           \* what recordUtterance() returned
    cancelAt,         \* place of the thread in cancelCurrentRecording()
    stopAt,           \* the recorder ContinuousVoiceSession::stop() is at, "no" or "returned"
    stopStep          \* what it does next to that recorder

flags == <<cancelRequested, recStopped, srcStopped, captureCancelled>>
callVars == <<who, calls>>
heardVars == <<speech, waited, timedOut>>
stopVars == <<stopAt, stopStep>>
othersVars == <<cancelAt, stopVars>>
micVars == <<flags, callVars, heardVars, othersVars, handle, at, err, stream, utterance, result>>

Recorders == {"normal", "barge"}
Results == {"none", "ok", "cancelled", "stopped", "fault", "timeout", "empty"}
CapturePCs == {"capture", "reset", "prepare", "loop", "read", "error", "recover", "chunk"}
MicPCs == {"idle", "enter", "open", "judge", "conclude"} \cup CapturePCs
\* what stop() of a recorder does, one atomic at a time
StopSteps == {"flag", "stopped", "source", "capture", "drop"}
After == [flag |-> "stopped", stopped |-> "source", source |-> "capture", capture |-> "drop"]

MicTypeOK ==
    /\ cancelRequested \in [Recorders -> BOOLEAN] /\ recStopped \in [Recorders -> BOOLEAN]
    /\ srcStopped \in BOOLEAN /\ captureCancelled \in BOOLEAN
    /\ handle \in {"ready", "dropped"} /\ who \in Recorders /\ at \in MicPCs
    /\ calls \in 0..MaxRecordings /\ err \in {"none", "dropped", "xrun"}
    /\ stream \in BOOLEAN /\ speech \in BOOLEAN /\ timedOut \in BOOLEAN
    /\ waited \in 0..MaxWait /\ utterance \in {"none", "whole", "flushed"}
    /\ result \in Results /\ cancelAt \in {"ready", "capture", "drop", "done"}
    /\ stopAt \in Recorders \cup {"no", "returned"} /\ stopStep \in StopSteps

MicInit ==
    /\ cancelRequested = [r \in Recorders |-> FALSE]
    /\ recStopped = [r \in Recorders |-> FALSE]
    /\ srcStopped = FALSE /\ captureCancelled = FALSE /\ handle = "dropped"
    /\ who = "normal" /\ at = "idle" /\ calls = 0 /\ err = "none" /\ stream = TRUE
    /\ speech = FALSE /\ waited = 0 /\ timedOut = FALSE /\ utterance = "none"
    /\ result = "none" /\ cancelAt = "done"
    /\ stopAt = "no" /\ stopStep = "flag"
-----------------------------------------------------------------------------
(***************************************************************************)
(* recordUtterance(): the flags are looked at before the capture.          *)
(***************************************************************************)
Record(r) ==
    /\ at = "idle" /\ calls < MaxRecordings /\ cancelAt \in {"ready", "done"}
    /\ who' = r /\ calls' = calls + 1 /\ at' = "enter"
    /\ err' = "none" /\ stream' = TRUE /\ utterance' = "none" /\ result' = "none"
    /\ speech' = FALSE /\ waited' = 0 /\ timedOut' = FALSE
    /\ cancelAt' = IF r = "barge" THEN "ready" ELSE "done"
    /\ UNCHANGED <<flags, handle, stopVars>>

GiveBack(res) == at' = "idle" /\ result' = res

Consume == cancelRequested' = [cancelRequested EXCEPT ![who] = FALSE]

Enter ==
    /\ at = "enter"
    /\ IF cancelRequested[who]
         THEN Consume /\ GiveBack("cancelled")
         ELSE at' = "open" /\ UNCHANGED <<cancelRequested, result>>
    /\ UNCHANGED <<recStopped, srcStopped, captureCancelled, callVars, heardVars, othersVars,
                   handle, err, stream, utterance>>

\* record_mutex_ is free: one recording at a time
Open ==
    /\ at = "open"
    /\ IF recStopped[who] THEN GiveBack("stopped") ELSE at' = "capture" /\ UNCHANGED result
    /\ UNCHANGED <<flags, callVars, heardVars, othersVars, handle, err, stream, utterance>>
-----------------------------------------------------------------------------
(***************************************************************************)
(* capture() of the source.  The device blocks in snd_pcm_readi() until it *)
(* has sound, fails, or is dropped by another thread.                      *)
(***************************************************************************)
EndCapture(ok) == at' = "judge" /\ stream' = ok

Drop == handle' = "dropped"

CheckSource ==
    /\ at = "capture"
    /\ IF srcStopped THEN EndCapture(FALSE) ELSE at' = "reset" /\ UNCHANGED stream
    /\ UNCHANGED <<flags, callVars, heardVars, othersVars, handle, err, utterance, result>>

ResetCapture ==
    /\ at = "reset" /\ captureCancelled' = FALSE /\ at' = "prepare"
    /\ UNCHANGED <<cancelRequested, recStopped, srcStopped, callVars, heardVars, othersVars,
                   handle, err, stream, utterance, result>>

Prepare ==
    /\ at = "prepare"
    /\ \/ handle' = "ready" /\ at' = "loop" /\ UNCHANGED stream
       \/ EndCapture(FALSE) /\ UNCHANGED handle
    /\ UNCHANGED <<flags, callVars, heardVars, othersVars, err, utterance, result>>

Over == srcStopped \/ captureCancelled

Loop ==
    /\ at = "loop"
    /\ IF Over THEN Drop /\ EndCapture(TRUE) ELSE at' = "read" /\ UNCHANGED <<handle, stream>>
    /\ UNCHANGED <<flags, callVars, heardVars, othersVars, err, utterance, result>>

\* the microphone delivers a chunk
Sound ==
    /\ at = "read" /\ handle = "ready" /\ at' = "chunk"
    /\ UNCHANGED <<flags, callVars, heardVars, othersVars, handle, err, stream, utterance, result>>

\* an overrun of the device, which stops until it is prepared again
Overrun ==
    /\ at = "read" /\ handle = "ready" /\ Drop
    /\ err' = "xrun" /\ at' = "error"
    /\ UNCHANGED <<flags, callVars, heardVars, othersVars, stream, utterance, result>>

\* the device was dropped under the reader: -EBADFD
ReadDropped ==
    /\ at = "read" /\ handle = "dropped"
    /\ err' = "dropped" /\ at' = "error"
    /\ UNCHANGED <<flags, callVars, heardVars, othersVars, handle, stream, utterance, result>>

ReadError ==
    /\ at = "error"
    /\ IF Over THEN Drop /\ EndCapture(TRUE) ELSE at' = "recover" /\ UNCHANGED <<handle, stream>>
    /\ UNCHANGED <<flags, callVars, heardVars, othersVars, err, utterance, result>>

\* snd_pcm_recover() prepares after an overrun and returns any other error
Recover ==
    /\ at = "recover"
    /\ \/ err = "xrun" /\ handle' = "ready" /\ at' = "loop" /\ UNCHANGED stream
       \/ Drop /\ EndCapture(FALSE)
    /\ UNCHANGED <<flags, callVars, heardVars, othersVars, err, utterance, result>>
-----------------------------------------------------------------------------
(***************************************************************************)
(* The chunk handler of the recorder.  A segment is complete only after    *)
(* speech was detected; the detector, the conversion of samples and the    *)
(* caller's handler may throw, which ends the capture with a failure.      *)
(***************************************************************************)
ChunkRefused ==
    /\ at = "chunk" /\ (recStopped[who] \/ cancelRequested[who])
    /\ Drop /\ EndCapture(TRUE)
    /\ UNCHANGED <<flags, callVars, heardVars, othersVars, err, utterance, result>>

Chunk(detected, complete) ==
    /\ at = "chunk" /\ ~recStopped[who] /\ ~cancelRequested[who]
    /\ speech' = (speech \/ detected)
    /\ complete => speech'
    /\ waited' = IF waited < MaxWait THEN waited + 1 ELSE waited
    /\ utterance' = IF complete THEN "whole" ELSE utterance
    /\ timedOut' = (~complete /\ ~speech' /\ waited' = MaxWait)
    /\ IF complete \/ timedOut'
         THEN Drop /\ EndCapture(TRUE)
         ELSE at' = "loop" /\ UNCHANGED <<handle, stream>>
    /\ UNCHANGED <<flags, callVars, othersVars, err, result>>

ChunkThrows ==
    /\ at = "chunk" /\ ~recStopped[who] /\ ~cancelRequested[who]
    /\ Drop /\ EndCapture(FALSE)
    /\ UNCHANGED <<flags, callVars, heardVars, othersVars, err, utterance, result>>
-----------------------------------------------------------------------------
(***************************************************************************)
(* The result: a cancellation first, whatever else happened.               *)
(***************************************************************************)
\* a plausible bug: the failure of the stream is reported first
JudgeStreamFirst ==
    /\ at = "judge"
    /\ IF ~stream
         THEN GiveBack("fault") /\ UNCHANGED cancelRequested
         ELSE IF cancelRequested[who]
                THEN Consume /\ GiveBack("cancelled")
                ELSE at' = "conclude" /\ UNCHANGED <<cancelRequested, result>>
    /\ UNCHANGED <<recStopped, srcStopped, captureCancelled, callVars, heardVars, othersVars,
                   handle, err, stream, utterance>>

Judge ==
    /\ at = "judge"
    /\ IF cancelRequested[who]
         THEN Consume /\ GiveBack("cancelled")
         ELSE at' = "conclude" /\ UNCHANGED <<cancelRequested, result>>
    /\ UNCHANGED <<recStopped, srcStopped, captureCancelled, callVars, heardVars, othersVars,
                   handle, err, stream, utterance>>

Conclude ==
    /\ at = "conclude"
    /\ \/ recStopped[who] /\ GiveBack("stopped") /\ UNCHANGED utterance
       \/ /\ ~recStopped[who]
          /\ \/ ~stream /\ GiveBack("fault") /\ UNCHANGED utterance
             \/ stream /\ timedOut /\ GiveBack("timeout") /\ UNCHANGED utterance
             \/ stream /\ ~timedOut /\ utterance = "whole" /\ GiveBack("ok") /\ UNCHANGED utterance
             \/ stream /\ ~timedOut /\ utterance = "none" /\ GiveBack("empty") /\ UNCHANGED utterance
             \/ /\ stream /\ ~timedOut /\ utterance = "none"
                /\ utterance' = "flushed" /\ GiveBack("ok")
    /\ UNCHANGED <<flags, callVars, heardVars, othersVars, handle, err, stream>>
-----------------------------------------------------------------------------
(***************************************************************************)
(* cancelCurrentRecording() of the barge-in recorder, called by the        *)
(* session thread before it joins the recording.                           *)
(***************************************************************************)
\* a plausible bug: only the source is told
CancelForgets ==
    /\ cancelAt = "ready" /\ cancelAt' = "capture"
    /\ UNCHANGED <<flags, callVars, heardVars, stopVars, handle, at, err, stream, utterance, result>>

Cancel ==
    /\ cancelAt = "ready"
    /\ cancelRequested' = [cancelRequested EXCEPT !["barge"] = TRUE]
    /\ cancelAt' = "capture"
    /\ UNCHANGED <<recStopped, srcStopped, captureCancelled, callVars, heardVars, stopVars, handle,
                   at, err, stream, utterance, result>>

CancelCapture ==
    /\ cancelAt = "capture" /\ captureCancelled' = TRUE /\ cancelAt' = "drop"
    /\ UNCHANGED <<cancelRequested, recStopped, srcStopped, callVars, heardVars, stopVars, handle,
                   at, err, stream, utterance, result>>

CancelDrop ==
    /\ cancelAt = "drop" /\ Drop /\ cancelAt' = "done"
    /\ UNCHANGED <<flags, callVars, heardVars, stopVars, at, err, stream, utterance, result>>
-----------------------------------------------------------------------------
(***************************************************************************)
(* ContinuousVoiceSession::stop(): first the normal recorder, then the     *)
(* other; each stops the source they share.                                *)
(***************************************************************************)
StopBegin ==
    /\ stopAt = "no" /\ stopAt' = "normal"
    /\ UNCHANGED <<stopStep, flags, callVars, heardVars, cancelAt, handle, at, err, stream, utterance, result>>

NextStop ==
    IF stopStep = "drop"
      THEN stopStep' = "flag" /\ stopAt' = IF stopAt = "normal" THEN "barge" ELSE "returned"
      ELSE stopStep' = After[stopStep] /\ UNCHANGED stopAt

\* a plausible bug: stop() only cancels what is being captured
StopOnlyCapture(r) ==
    /\ stopAt = r
    /\ captureCancelled' = (stopStep = "capture" \/ captureCancelled)
    /\ handle' = IF stopStep = "drop" THEN "dropped" ELSE handle
    /\ NextStop
    /\ UNCHANGED <<cancelRequested, recStopped, srcStopped, callVars, heardVars, cancelAt, at,
                   err, stream, utterance, result>>

Stop(r) ==
    /\ stopAt = r
    /\ cancelRequested' = [cancelRequested EXCEPT ![r] = @ \/ stopStep = "flag"]
    /\ recStopped' = [recStopped EXCEPT ![r] = @ \/ stopStep = "stopped"]
    /\ srcStopped' = (stopStep = "source" \/ srcStopped)
    /\ captureCancelled' = (stopStep = "capture" \/ captureCancelled)
    /\ handle' = IF stopStep = "drop" THEN "dropped" ELSE handle
    /\ NextStop
    /\ UNCHANGED <<callVars, heardVars, cancelAt, at, err, stream, utterance, result>>
-----------------------------------------------------------------------------
\* the steps the recording thread takes by itself, whether or not there is sound
Recording ==
    \/ Enter \/ Open \/ CheckSource \/ ResetCapture \/ Prepare \/ Loop \/ ReadDropped
    \/ ReadError \/ Recover \/ ChunkRefused \/ ChunkThrows \/ Judge \/ Conclude
    \/ \E detected, complete \in BOOLEAN : Chunk(detected, complete)

Cancelling == Cancel \/ CancelCapture \/ CancelDrop

Stops == \E r \in Recorders : Stop(r)

MicNext ==
    \/ \E r \in Recorders : Record(r)
    \/ Recording \/ Sound \/ Overrun \/ Cancelling \/ StopBegin \/ Stops

\* threads run on; sound, speech and the callers' next calls are not promised
MicFairness ==
    /\ WF_micVars(Recording)
    /\ WF_micVars(CancelCapture \/ CancelDrop)
    /\ WF_micVars(Stops)

MicSpec == MicInit /\ [][MicNext]_micVars
-----------------------------------------------------------------------------
(***************************************************************************)
(* A cancellation or a stop drops the device under the reader, which then  *)
(* sees an error, and the flag that would explain the error may just have  *)
(* been reset by capture().  The recording is still reported as cancelled  *)
(* or stopped, never as a fault of the microphone.                         *)
(***************************************************************************)
InterruptIsNoFault == result = "fault" => err # "dropped"

(***************************************************************************)
(* A successful recording holds a complete segment of speech.  Half an     *)
(* utterance, flushed out of the detector, is returned only when the other *)
(* recorder's stop() has stopped the source for good.                      *)
(***************************************************************************)
PartialOnlyAfterStop == result = "ok" /\ utterance = "flushed" => srcStopped

(***************************************************************************)
(* stop() ends the recording even if the microphone never delivers another *)
(* chunk: no place of capture() forgets it, a blocked read included.       *)
(***************************************************************************)
StopEndsRecording == (stopAt = "returned") ~> (at = "idle")

(***************************************************************************)
(* cancelCurrentRecording() ends the recording provided sound keeps        *)
(* coming: when capture() has just reset the flag of the source and has    *)
(* prepared the device again, only the next chunk finds the cancellation.  *)
(***************************************************************************)
CancelEndsRecording ==
    SF_micVars(Sound) => ((cancelAt = "done" /\ who = "barge") ~> (at = "idle"))
=============================================================================
