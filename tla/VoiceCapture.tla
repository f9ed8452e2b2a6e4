---------------------------- MODULE VoiceCapture ---------------------------
(***************************************************************************)
(* How the WhisperVoice mod (mods/whisper_voice.cpp) cuts the microphone's *)
(* sound into utterances.                                                  *)
(*                                                                         *)
(* Unity records into a ring, the microphone's AudioClip, while the main   *)
(* thread now and then reads what is new (ProcessAudioAndRecognize), cuts  *)
(* it into frames and lets a voice activity detector decide where speech   *)
(* begins and ends (ProcessVadSamples).  Hooks on Microphone.Start and End *)
(* begin and end a capture between two frames of the game.                 *)
(*                                                                         *)
(* A sample is a number that tells when it was recorded; a number is left  *)
(* out between two captures, and 0 is a place of the ring never recorded.  *)
(* The microphone is mono at 16 kHz.                                       *)
(*                                                                         *)
(* VoiceWorker models the rest of the same class; the two modules share no *)
(* name, so that WhisperVoiceProofs can extend both.                       *)
(***************************************************************************)
EXTENDS Naturals, Sequences

CONSTANTS
  Clip,               \* samples the ring holds
  MinRead,            \* the 10 ms that a read waits for
  FrameSamples,       \* kVadFrameSamples
  PreRollSamples,     \* kVadPreRollSamples
  EndSilenceSamples,  \* kVadEndSilenceSamples
  MinimumSpeech,      \* kMinimumSpeechSamples
  MaximumUtterance,   \* kMaximumUtteranceSamples
  MaxSamples          \* bound: the last sample ever recorded

ASSUME SizesAssumption ==
  /\ Clip \in Nat \ {0} /\ MinRead \in Nat /\ FrameSamples \in Nat \ {0}
  /\ PreRollSamples \in Nat /\ EndSilenceSamples \in Nat
  /\ MinimumSpeech \in Nat /\ MaximumUtterance \in Nat
  /\ FrameSamples <= PreRollSamples /\ PreRollSamples < MaximumUtterance
  /\ MaxSamples \in Nat

VARIABLES
  activeMicrophoneClip,   \* there is one
  base, written,          \* the capture's samples are base+1 .. base+written
  reader,                 \* the main thread: "idle", "read" or "vad"
  currentPosition,        \* local of ProcessAudioAndRecognize
  lastMicPosition,
  vadInputBuffer, preRollBuffer, accumulationBuffer,
  isSpeaking, utteranceSilenceSamples, utteranceSpeechSamples,
  submitted,              \* the utterance submitted last
  taken,                  \* history: samples of this capture that were read
  lapped,                 \* history: one was overwritten before it was
  clean                   \* history: submitted is from no such capture

recorder  == <<activeMicrophoneClip, base, written>>
utterance == <<accumulationBuffer, isSpeaking, utteranceSilenceSamples,
               utteranceSpeechSamples, submitted, clean>>
buffers   == <<vadInputBuffer, preRollBuffer>>
captureVars == <<recorder, reader, currentPosition, lastMicPosition, buffers,
                 utterance, taken, lapped>>

CaptureInit ==
  /\ activeMicrophoneClip = FALSE /\ base = 0 /\ written = 0
  /\ reader = "idle" /\ currentPosition = 0 /\ lastMicPosition = 0
  /\ vadInputBuffer = <<>> /\ preRollBuffer = <<>>
  /\ accumulationBuffer = <<>> /\ isSpeaking = FALSE
  /\ utteranceSilenceSamples = 0 /\ utteranceSpeechSamples = 0
  /\ submitted = <<>> /\ clean = TRUE /\ taken = 0 /\ lapped = FALSE

-----------------------------------------------------------------------------
(* The microphone.                                                         *)

\* What the ring holds at place p, and where recording goes on.
RingAt(p) == IF p >= written THEN 0
             ELSE base + written - ((written - 1 - p) % Clip)
GetPosition == written % Clip

Record ==
  /\ activeMicrophoneClip
  /\ base + written < MaxSamples
  /\ written' = written + 1
  /\ lapped' = (lapped \/ written + 1 - taken > Clip)
  /\ UNCHANGED <<activeMicrophoneClip, base, reader, currentPosition,
                 lastMicPosition, buffers, utterance, taken>>

-----------------------------------------------------------------------------
(* SubmitCurrentUtterance, and the two hooks that may call it.             *)

\* Utterance a with that much speech is over: it is submitted or forgotten.
Complete(a, speech) ==
  IF speech >= MinimumSpeech /\ a # <<>>
  THEN submitted' = a /\ clean' = ~lapped
  ELSE UNCHANGED <<submitted, clean>>

SubmitCurrentUtterance(a, speech) ==
  /\ Complete(a, speech)
  /\ isSpeaking' = FALSE /\ accumulationBuffer' = <<>>
  /\ utteranceSilenceSamples' = 0 /\ utteranceSpeechSamples' = 0

\* Faulty: the samples that did not fill a frame stay.
ResetKeepsInput ==
  /\ lastMicPosition' = 0 /\ isSpeaking' = FALSE
  /\ utteranceSilenceSamples' = 0 /\ utteranceSpeechSamples' = 0
  /\ preRollBuffer' = <<>> /\ accumulationBuffer' = <<>>
  /\ UNCHANGED vadInputBuffer

ResetAudioState ==
  /\ lastMicPosition' = 0 /\ isSpeaking' = FALSE
  /\ utteranceSilenceSamples' = 0 /\ utteranceSpeechSamples' = 0
  /\ vadInputBuffer' = <<>> /\ preRollBuffer' = <<>>
  /\ accumulationBuffer' = <<>>

\* BeginMicrophoneCapture and EndMicrophoneCapture: submit, forget, reset.
EndUtterance ==
  /\ IF isSpeaking
     THEN Complete(accumulationBuffer, utteranceSpeechSamples)
     ELSE UNCHANGED <<submitted, clean>>
  /\ ResetAudioState

\* Microphone.Start recorded anew, or returned no clip.
BeginMicrophoneCapture ==
  /\ reader = "idle"
  /\ activeMicrophoneClip' \in BOOLEAN
  /\ base' = base + written + 1 /\ written' = 0
  /\ base' <= MaxSamples
  /\ taken' = 0 /\ lapped' = FALSE
  /\ EndUtterance
  /\ UNCHANGED <<reader, currentPosition>>

\* Microphone.End for the captured device.
EndMicrophoneCapture ==
  /\ reader = "idle" /\ activeMicrophoneClip
  /\ activeMicrophoneClip' = FALSE
  /\ EndUtterance
  /\ UNCHANGED <<base, written, taken, reader, currentPosition, lapped>>

-----------------------------------------------------------------------------
(* ProcessAudioAndRecognize.                                               *)

\* Faulty: the wrapped part is one sample short.
FramesShort(from, to) == IF to > from THEN to - from ELSE Clip - from + to - 1

\* sampleFramesToRead.
SampleFramesToRead(from, to) ==
  IF to > from THEN to - from ELSE Clip - from + to

\* uiUpdate, GetPosition, and the returns for no capture, for nothing new and
\* for less than 10 ms.
PollPosition ==
  /\ reader = "idle"
  /\ IF \/ ~activeMicrophoneClip
        \/ GetPosition = lastMicPosition
        \/ SampleFramesToRead(lastMicPosition, GetPosition) < MinRead
     THEN UNCHANGED <<reader, currentPosition>>
     ELSE reader' = "read" /\ currentPosition' = GetPosition
  /\ UNCHANGED <<recorder, lastMicPosition, buffers, utterance, taken, lapped>>

\* AudioClip.GetData, some samples later: the ring from lastMicPosition on.
GetData ==
  LET n == SampleFramesToRead(lastMicPosition, currentPosition)
      samples == [i \in 1..n |-> RingAt((lastMicPosition + i - 1) % Clip)]
  IN  /\ reader = "read" /\ reader' = "vad"
      /\ vadInputBuffer' = vadInputBuffer \o samples
      /\ lastMicPosition' = currentPosition
      /\ taken' = written - ((written - currentPosition) % Clip)
      /\ UNCHANGED <<recorder, currentPosition, preRollBuffer, utterance,
                     lapped>>

\* GetData reports a failure or a short array: the same samples next time.
GetDataFails ==
  /\ reader = "read" /\ reader' = "idle"
  /\ UNCHANGED <<recorder, currentPosition, lastMicPosition, buffers,
                 utterance, taken, lapped>>

-----------------------------------------------------------------------------
(* ProcessVadSamples: one action for each frame.                           *)

Frame == SubSeq(vadInputBuffer, 1, FrameSamples)
AfterFrame == SubSeq(vadInputBuffer, FrameSamples + 1, Len(vadInputBuffer))

\* The last n elements of s.
LastN(s, n) == IF Len(s) <= n THEN s ELSE SubSeq(s, Len(s) - n + 1, Len(s))

\* Faulty: the pre-roll is copied, not moved.
KeepPreRoll(speech) ==
  LET preRoll == LastN(preRollBuffer \o Frame, PreRollSamples)
  IN  /\ preRollBuffer' = preRoll
      /\ IF speech
         THEN /\ isSpeaking' = TRUE /\ accumulationBuffer' = preRoll
              /\ utteranceSilenceSamples' = 0
              /\ utteranceSpeechSamples' = FrameSamples
         ELSE UNCHANGED <<isSpeaking, accumulationBuffer,
                          utteranceSilenceSamples, utteranceSpeechSamples>>
      /\ UNCHANGED <<submitted, clean>>

\* Nobody spoke: the frame joins the pre-roll, which speech turns into the
\* beginning of an utterance.
IdleFrame(speech) ==
  LET preRoll == LastN(preRollBuffer \o Frame, PreRollSamples)
  IN  /\ IF speech
         THEN /\ isSpeaking' = TRUE
              /\ accumulationBuffer' = preRoll /\ preRollBuffer' = <<>>
              /\ utteranceSilenceSamples' = 0
              /\ utteranceSpeechSamples' = FrameSamples
         ELSE /\ preRollBuffer' = preRoll
              /\ UNCHANGED <<isSpeaking, accumulationBuffer,
                             utteranceSilenceSamples, utteranceSpeechSamples>>
      /\ UNCHANGED <<submitted, clean>>

\* Faulty: a long utterance is not cut.
EndsInSilence(a, silence) == silence >= EndSilenceSamples

Ends(a, silence) ==
  silence >= EndSilenceSamples \/ Len(a) >= MaximumUtterance

\* Somebody speaks: the frame joins the utterance, which may end with it.
SpeechFrame(speech) ==
  LET a == accumulationBuffer \o Frame
      silence == IF speech THEN 0 ELSE utteranceSilenceSamples + FrameSamples
      voiced == utteranceSpeechSamples + IF speech THEN FrameSamples ELSE 0
  IN  /\ IF Ends(a, silence)
         THEN SubmitCurrentUtterance(a, voiced)
         ELSE /\ accumulationBuffer' = a
              /\ utteranceSilenceSamples' = silence
              /\ utteranceSpeechSamples' = voiced
              /\ UNCHANGED <<isSpeaking, submitted, clean>>
      /\ UNCHANGED preRollBuffer

VadFrame ==
  /\ reader = "vad" /\ Len(vadInputBuffer) >= FrameSamples
  /\ vadInputBuffer' = AfterFrame
  /\ \E speech \in BOOLEAN :
       IF isSpeaking THEN SpeechFrame(speech) ELSE IdleFrame(speech)
  /\ UNCHANGED <<recorder, reader, currentPosition, lastMicPosition, taken,
                 lapped>>

VadDone ==
  /\ reader = "vad" /\ Len(vadInputBuffer) < FrameSamples
  /\ reader' = "idle"
  /\ UNCHANGED <<recorder, currentPosition, lastMicPosition, buffers,
                 utterance, taken, lapped>>

CaptureNext ==
  \/ Record \/ BeginMicrophoneCapture \/ EndMicrophoneCapture
  \/ PollPosition \/ GetData \/ GetDataFails \/ VadFrame \/ VadDone

CaptureSpec == CaptureInit /\ [][CaptureNext]_captureVars

-----------------------------------------------------------------------------
(* Properties.                                                             *)

Samples == 0..MaxSamples

\* Types; the buffers and counters stay within the mod's limits.
CaptureTypeOK ==
  /\ activeMicrophoneClip \in BOOLEAN /\ isSpeaking \in BOOLEAN
  /\ reader \in {"idle", "read", "vad"}
  /\ currentPosition \in 0..(Clip - 1) /\ lastMicPosition \in 0..(Clip - 1)
  /\ vadInputBuffer \in Seq(Samples)
  /\ preRollBuffer \in Seq(Samples) /\ Len(preRollBuffer) <= PreRollSamples
  /\ accumulationBuffer \in Seq(Samples)
  /\ Len(accumulationBuffer) < MaximumUtterance
  /\ submitted \in Seq(Samples)
  /\ Len(submitted) < MaximumUtterance + FrameSamples
  /\ utteranceSilenceSamples + utteranceSpeechSamples
       < MaximumUtterance + FrameSamples

\* What the detector holds, oldest first.
Held == preRollBuffer \o accumulationBuffer \o vadInputBuffer

Consecutive(s) == \A i \in 1..(Len(s) - 1) : s[i + 1] = s[i] + 1

\* Unless the ring lapped the reader in this capture, what is held is an
\* unbroken run of it that ends where the next read begins: the ring
\* arithmetic, the leftover of a frame, the pre-roll and the resets lose and
\* repeat nothing.
NothingLost ==
  ~lapped =>
    /\ Consecutive(Held)
    /\ Held # <<>> => Held[Len(Held)] = base + taken

\* No part of a ring that was not recorded, and nothing of an earlier capture,
\* is ever taken for speech, even when the reader was lapped.
OnlyThisCapture == \A i \in DOMAIN Held : Held[i] > base

\* The recogniser gets an unbroken run with speech enough, and no sample that
\* it may get again, from every capture in which the ring did not lap the
\* reader before.
GoodUtterance ==
  clean /\ submitted # <<>> =>
    /\ Consecutive(submitted)
    /\ Len(submitted) >= MinimumSpeech
    /\ \A i \in DOMAIN Held : submitted[Len(submitted)] < Held[i]
=============================================================================
