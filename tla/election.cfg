SPECIFICATION Spec
CONSTANTS
  s0 = s0 s1 = s1 s2 = s2
  t1 = t1 t2 = t2 t3 = t3 t4 = t4
  a1 = a1 a2 = a2 a3 = a3 a4 = a4 b1 = b1
  Server = {s0, s1, s2}
  Nobody = Nobody
  LastServer = s2
  Account = {a1, a2}
  Txn = {}
  CrossShard = {}
  Sender <- MCSender
  Receiver <- MCReceiver
  Amount <- MCAmount
  MaxAmount = 2
  InitialBalance <- MCBalance
  MayStand = {s0, s1}
  MaxTerm = 2
  MaxVotes = 4
  MaxInFlight = 3
  MayStop = {s0, s1, s2}
  MaxStopped = 0
  MaxRequests = 0
  DoubleCount = FALSE
SYMMETRY SymmetryOfElection
CHECK_DEADLOCK FALSE
INVARIANT ElectionSafety
INVARIANT ElectionInv
PROPERTY ImplementsLeaderElection
