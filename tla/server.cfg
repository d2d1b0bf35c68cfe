SPECIFICATION FairSpec
CONSTANTS
  N = 2
  Outside = Outside
  Backlog = 1
  MaxFds = 2
  MaxUnderWay = 3
  MaxSent = 1
  MaxKilled = 1
CHECK_DEADLOCK FALSE
INVARIANT TypeOK PeerLeaksNeedFailures FatalNeedsADeath
PROPERTY ExitEndsServers
