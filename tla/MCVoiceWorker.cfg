SPECIFICATION FairSpec
CONSTANTS
  MaxQueuedAudioJobs = 2
  MaxQueuedPhrases = 2
  MaxUtterances = 5
INVARIANT TypeOK
INVARIANT InOrder
INVARIANT KeepsNewest
PROPERTY SpokenIsDealtWith
PROPERTY UnloadReturnsIfAwake
