SPECIFICATION FairSpec
CONSTANTS
  r1 = r1
  p1 = p1
  c1 = c1
  Rooms <- OneRoom
  Proxies <- OnePlayer
  HostCalls <- OneCall
  None = None
  MaxSessions = 2
  MaxBinds = 1
  MaxCreates = 2
  MaxJoins = 2
INVARIANT TypeOK
INVARIANT BothNatsOpen
INVARIANT OnlyInvited
INVARIANT PollingGoesOn
PROPERTY PlayersMeet
