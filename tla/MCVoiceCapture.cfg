SPECIFICATION CaptureSpec
CONSTANTS
  Clip = 5
  MinRead = 1
  FrameSamples = 2
  PreRollSamples = 4
  EndSilenceSamples = 4
  MinimumSpeech = 4
  MaximumUtterance = 8
  MaxSamples = 17
INVARIANT CaptureTypeOK
INVARIANT NothingLost
INVARIANT OnlyThisCapture
INVARIANT GoodUtterance
