--------------------------- MODULE MCVoiceWorker ---------------------------
(* VoiceWorker with short queues, so that both overflow.                   *)
EXTENDS VoiceWorker, TLC
=============================================================================
