SPECIFICATION MCSpec
CONSTANTS
  s1 = s1
  s2 = s2
  Sources <- TwoSources
  Clips = {1, 3}
  Delays = {0, 1}
  Frames = {1, 2}
  MaxFrame = 2
  Modulus = 4
  MaxCalls = 3
  None = None
CHECK_DEADLOCK FALSE
INVARIANT TypeOK
INVARIANT NeverTwice
INVARIANT LoopsOn
PROPERTY StopSilences
PROPERTY HeardAndRemoved
