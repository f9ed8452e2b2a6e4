SPECIFICATION FairSpec
CONSTANTS
  h1 = h1
  h2 = h2
  l1 = l1
  c1 = c1
  c2 = c2
  Hosts <- MCHosts
  Locals <- MCLocals
  Stun = stun
  Public = public
  None = None
  Handlers <- TwoHandlers
  MaxJoins = 2
INVARIANT TypeOK
INVARIANT FlagsAgree
INVARIANT PendingWaits
INVARIANT NoLostPunch
PROPERTY JoinAnswered
PROPERTY StopCompletes
