SPECIFICATION FairSpec
CONSTANTS
  MaxQueuedAudioJobs = 2
  MaxQueuedPhrases = 2
  MaxUtterances = 2
PROPERTY UnloadReturns
