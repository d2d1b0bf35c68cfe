SPECIFICATION FairSpec
CONSTANTS
  c0 = c0 c1 = c1 m0 = m0 m2 = m2 x = x p = p f0 = f0 f1 = f1
  Cluster = {c0, c1}
  Member = {m0, m2}
  LastMember = m2
  Unknown = Unknown
  Txn = {x, p}
  CrossShard = {x}
  From <- MCFrom
  To <- MCTo
  Flush = {f0}
  MaxElections = 1
  MaxScans = 1
  MaxRefused = 1
CHECK_DEADLOCK FALSE
INVARIANT TypeOK CommitNeedsTwoYes DirectIsAtomic
PROPERTY ImplementsAtomicCommit DirectIsAnswered
