SPECIFICATION Spec
CONSTANTS
  s0 = s0 s1 = s1 s2 = s2
  t1 = t1 t2 = t2 t3 = t3 t4 = t4
  a1 = a1 a2 = a2 a3 = a3 a4 = a4 b1 = b1
  Server = {s0, s1, s2}
  Nobody = Nobody
  LastServer = s2
  Account = {a1, a2}
  Txn = {t1, t3}
  CrossShard = {t3}
  Sender <- MCSender
  Receiver <- MCReceiver
  Amount <- MCAmount
  MaxAmount = 2
  InitialBalance <- MCBalance
  MayStand = {s0}
  MaxTerm = 1
  MaxVotes = 2
  MaxInFlight = 2
  MayStop = {s0, s1, s2}
  MaxStopped = 0
  MaxRequests = 3
  DoubleCount = TRUE
SYMMETRY Symmetry
CHECK_DEADLOCK FALSE
INVARIANT TypeOK
INVARIANT LeaderBalanceIsEarned
INVARIANT LocksArePending
