----------------------------- MODULE AlsaDevice -----------------------------
(***************************************************************************)
(* The player (src/alsa_audio_player.cpp) and the recorder of a fixed      *)
(* length (src/alsa_audio_recorder.cpp).  Each moves the periods of one    *)
(* buffer through a blocking PCM handle, one call at a time under its      *)
(* mutex, while stop() on another thread sets a flag and then drops the    *)
(* handle.  The player's flag is reset by the next play(); the recorder    *)
(* stays stopped.                                                          *)
(***************************************************************************)
EXTENDS Naturals

CONSTANT Periods   \* bound on the periods of a buffer

ASSUME AlsaAssumption == Periods \in Nat

VARIABLES
    place,      \* place of the thread in play() or recordUtterance()
    pcm,        \* the handle: "ready", or "dropped" until it is prepared
    stopFlag,   \* stop_requested_ of the player, stopped_ of the recorder
    left,       \* periods still to be moved
    failure,    \* what the last failed transfer met
    outcome,    \* "ok", "cut" by a stop, or "fault"
    stopping,   \* place of the thread in stop()
    straddled   \* a stop() had set its flag, and not dropped yet, when play() reset it (ghost)

alsaVars == <<place, pcm, stopFlag, left, failure, outcome, stopping, straddled>>

Devices == {"player", "recorder"}
Places == {"idle", "start", "configure", "loop", "transfer", "error", "recover", "end", "drain"}

AlsaTypeOK ==
    /\ place \in [Devices -> Places] /\ pcm \in [Devices -> {"ready", "dropped"}]
    /\ stopFlag \in [Devices -> BOOLEAN] /\ left \in [Devices -> 0..Periods]
    /\ failure \in [Devices -> {"none", "dropped", "xrun"}]
    /\ outcome \in [Devices -> {"none", "ok", "cut", "fault"}]
    /\ stopping \in [Devices -> {"no", "flagged", "done"}] /\ straddled \in BOOLEAN

AlsaInit ==
    /\ place = [d \in Devices |-> "idle"] /\ pcm = [d \in Devices |-> "dropped"]
    /\ stopFlag = [d \in Devices |-> FALSE] /\ left = [d \in Devices |-> 0]
    /\ failure = [d \in Devices |-> "none"] /\ outcome = [d \in Devices |-> "none"]
    /\ stopping = [d \in Devices |-> "no"] /\ straddled = FALSE
-----------------------------------------------------------------------------
At(d, p) == place[d] = p
Go(d, p) == place' = [place EXCEPT ![d] = p]
Finish(d, res) == Go(d, "idle") /\ outcome' = [outcome EXCEPT ![d] = res]
Set(d, s) == pcm' = [pcm EXCEPT ![d] = s]

Call(d) ==
    /\ At(d, "idle") /\ Go(d, "start")
    /\ failure' = [failure EXCEPT ![d] = "none"]
    /\ outcome' = [outcome EXCEPT ![d] = "none"]
    /\ UNCHANGED <<pcm, stopFlag, left, stopping, straddled>>

\* play() forgets an earlier stop() ...
StartPlayer ==
    /\ At("player", "start") /\ Go("player", "configure")
    /\ stopFlag' = [stopFlag EXCEPT !["player"] = FALSE]
    /\ straddled' = (stopping["player"] = "flagged")
    /\ stopping' = [stopping EXCEPT !["player"] = IF @ = "done" THEN "no" ELSE @]
    /\ UNCHANGED <<pcm, left, failure, outcome>>

\* ... and recordUtterance() obeys it
StartRecorder ==
    /\ At("recorder", "start")
    /\ IF stopFlag["recorder"] THEN Finish("recorder", "cut")
                               ELSE Go("recorder", "configure") /\ UNCHANGED outcome
    /\ UNCHANGED <<pcm, stopFlag, left, failure, stopping, straddled>>

\* configureDevice() and snd_pcm_prepare()
Configure(d) ==
    /\ At(d, "configure")
    /\ \/ /\ Go(d, "loop") /\ Set(d, "ready") /\ UNCHANGED outcome
          /\ \E n \in 0..Periods : left' = [left EXCEPT ![d] = n]
       \/ Finish(d, "fault") /\ UNCHANGED <<pcm, left>>
    /\ UNCHANGED <<stopFlag, failure, stopping, straddled>>

NextPeriod(d) ==
    /\ At(d, "loop")
    /\ \/ left[d] = 0 /\ Go(d, "end") /\ UNCHANGED outcome
       \/ left[d] > 0 /\ stopFlag[d] /\ Finish(d, "cut")
       \/ left[d] > 0 /\ ~stopFlag[d] /\ Go(d, "transfer") /\ UNCHANGED outcome
    /\ UNCHANGED <<pcm, stopFlag, left, failure, stopping, straddled>>

\* the device takes or gives a period
Transfer(d) ==
    /\ At(d, "transfer") /\ pcm[d] = "ready" /\ Go(d, "loop")
    /\ left' = [left EXCEPT ![d] = @ - 1]
    /\ UNCHANGED <<pcm, stopFlag, failure, outcome, stopping, straddled>>

\* an underrun or overrun
Overruns(d) ==
    /\ At(d, "transfer") /\ pcm[d] = "ready" /\ Go(d, "error") /\ Set(d, "dropped")
    /\ failure' = [failure EXCEPT ![d] = "xrun"]
    /\ UNCHANGED <<stopFlag, left, outcome, stopping, straddled>>

\* another thread has dropped the handle: -EBADFD
TransferDropped(d) ==
    /\ At(d, "transfer") /\ pcm[d] = "dropped" /\ Go(d, "error")
    /\ failure' = [failure EXCEPT ![d] = "dropped"]
    /\ UNCHANGED <<pcm, stopFlag, left, outcome, stopping, straddled>>

\* a plausible bug: an error is recovered from before the flag is looked at
TransferErrorUnchecked(d) ==
    /\ At(d, "error") /\ Go(d, "recover")
    /\ UNCHANGED <<pcm, stopFlag, left, failure, outcome, stopping, straddled>>

TransferError(d) ==
    /\ At(d, "error")
    /\ IF stopFlag[d] THEN Finish(d, "cut") ELSE Go(d, "recover") /\ UNCHANGED outcome
    /\ UNCHANGED <<pcm, stopFlag, left, failure, stopping, straddled>>

\* snd_pcm_recover() prepares after an xrun, and returns any other error
RecoverDevice(d) ==
    /\ At(d, "recover")
    /\ \/ failure[d] = "xrun" /\ Go(d, "loop") /\ Set(d, "ready") /\ UNCHANGED outcome
       \/ Finish(d, "fault") /\ UNCHANGED pcm
    /\ UNCHANGED <<stopFlag, left, failure, stopping, straddled>>

EndPlayer ==
    /\ At("player", "end")
    /\ IF stopFlag["player"] THEN Finish("player", "cut")
                             ELSE Go("player", "drain") /\ UNCHANGED outcome
    /\ UNCHANGED <<pcm, stopFlag, left, failure, stopping, straddled>>

EndRecorder ==
    /\ At("recorder", "end") /\ Finish("recorder", "ok") /\ Set("recorder", "dropped")
    /\ UNCHANGED <<stopFlag, left, failure, stopping, straddled>>

\* what is buffered has been played
Drained ==
    /\ At("player", "drain") /\ pcm["player"] = "ready"
    /\ Finish("player", "ok") /\ Set("player", "dropped")
    /\ UNCHANGED <<stopFlag, left, failure, stopping, straddled>>

\* snd_pcm_drain() of a dropped handle may fail, which is a fault unless stop() explains it
DrainDropped ==
    /\ At("player", "drain") /\ pcm["player"] = "dropped"
    /\ failure' = [failure EXCEPT !["player"] = "dropped"]
    /\ \/ Finish("player", "cut")
       \/ ~stopFlag["player"] /\ Finish("player", "fault")
    /\ UNCHANGED <<pcm, stopFlag, left, stopping, straddled>>
-----------------------------------------------------------------------------
\* stop(): the flag, then snd_pcm_drop()
StopFlag(d) ==
    /\ stopping[d] # "flagged" /\ stopping' = [stopping EXCEPT ![d] = "flagged"]
    /\ stopFlag' = [stopFlag EXCEPT ![d] = TRUE]
    /\ UNCHANGED <<place, pcm, left, failure, outcome, straddled>>

\* a plausible bug: the handle is left to finish what it is doing
StopDropNot(d) ==
    /\ stopping[d] = "flagged" /\ stopping' = [stopping EXCEPT ![d] = "done"]
    /\ UNCHANGED <<place, pcm, stopFlag, left, failure, outcome, straddled>>

StopDrop(d) ==
    /\ stopping[d] = "flagged" /\ stopping' = [stopping EXCEPT ![d] = "done"]
    /\ Set(d, "dropped")
    /\ UNCHANGED <<place, stopFlag, left, failure, outcome, straddled>>
-----------------------------------------------------------------------------
\* what a call does by itself, whether or not the device makes progress
Run(d) ==
    \/ Configure(d) \/ NextPeriod(d) \/ TransferDropped(d) \/ TransferError(d) \/ RecoverDevice(d)
    \/ d = "player" /\ (StartPlayer \/ EndPlayer \/ DrainDropped)
    \/ d = "recorder" /\ (StartRecorder \/ EndRecorder)

AlsaNext ==
    \/ \E d \in Devices :
         Call(d) \/ Run(d) \/ Transfer(d) \/ Overruns(d) \/ StopFlag(d) \/ StopDrop(d)
    \/ Drained

AlsaFairness == \A d \in Devices : WF_alsaVars(Run(d)) /\ WF_alsaVars(StopDrop(d))

AlsaSpec == AlsaInit /\ [][AlsaNext]_alsaVars
-----------------------------------------------------------------------------
(***************************************************************************)
(* Being stopped is no fault of the device.  The player reports one only   *)
(* if play() resets the flag between the two steps of a stop(), whose drop *)
(* then interrupts a playback that knows nothing of it; the recorder never *)
(* does.                                                                   *)
(***************************************************************************)
StopIsNoFault ==
    \A d \in Devices :
        outcome[d] = "fault" /\ failure[d] = "dropped" => d = "player" /\ straddled

(***************************************************************************)
(* stop() ends the call under way although the device never moves another  *)
(* period: a blocked transfer or drain is woken, and no later one begins.  *)
(* Only a play() that starts during or after the stop() forgets it.        *)
(***************************************************************************)
StopEndsTransfer ==
    \A d \in Devices :
        (stopping[d] = "done" /\ stopFlag[d]) ~> (place[d] = "idle" \/ ~stopFlag[d])
=============================================================================
