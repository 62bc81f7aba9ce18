---------------------- MODULE MCContinuousVoiceSession ----------------------
(* Bounds for ContinuousVoiceSession. *)
EXTENDS ContinuousVoiceSession
=============================================================================
