SPECIFICATION Spec
CONSTANTS
  s0 = s0 s1 = s1 s2 = s2
  t1 = t1 t2 = t2 t3 = t3 t4 = t4
  a1 = a1 a2 = a2 a3 = a3 a4 = a4 b1 = b1
  Server = {s0, s1, s2}
  Nobody = Nobody
  LastServer = s0
  Account = {a1, a2}
  Txn = {t1, t2}
  CrossShard = {}
  Sender <- MCSender
  Receiver <- MCReceiver
  Amount <- MCAmount
  MaxAmount = 2
  InitialBalance <- MCBalance
  MayStand = {s0}
  MaxTerm = 1
  MaxVotes = 2
  MaxInFlight = 3
  MayStop = {s2}
  MaxStopped = 1
  MaxRequests = 2
  DoubleCount = FALSE
SYMMETRY Symmetry
CHECK_DEADLOCK FALSE
INVARIANT FollowersBehindLeader
INVARIANT LeaderBalanceIsEarned
INVARIANT LeaderSolvent
INVARIANT LocksArePending
