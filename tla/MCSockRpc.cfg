SPECIFICATION Spec
CONSTANTS
  Entries = {onLoad, onUiUpdate}
  Callbacks = {callback, callback2}
  Api = {call2, runtimeObjectInit}
  Library = {onUiUpdate, callback, callback2}
  Void = {runtimeObjectInit}
  Lengths = {0, 3}
  Modulus = 4
  MaxDepth = 8
INVARIANT TypeOK
INVARIANT InSync
INVARIANT OneAtATime
INVARIANT FinishedFirst
PROPERTY ImplementsCallStack
