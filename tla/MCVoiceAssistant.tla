-------------------------- MODULE MCVoiceAssistant --------------------------
(* Bounds for VoiceAssistant. *)
EXTENDS VoiceAssistant
=============================================================================
