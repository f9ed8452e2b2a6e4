--------------------------- MODULE MCVoiceCapture --------------------------
(* VoiceCapture with a ring of a few samples.                              *)
EXTENDS VoiceCapture, TLC
=============================================================================
