CONSTANTS
  r1 = r1
  r2 = r2
  l1 = l1
  Requests <- MCRequests
  Logouts <- MCLogouts
  Free = Free
  Orphan = Orphan
  Faults = {"lock", "halt", "norotate"}
  MaxTokens = 4
SPECIFICATION FairSpec
INVARIANT LockExclusion
INVARIANT NoNeedlessRefresh
INVARIANT LockHolderSendsCurrentToken
INVARIANT FaultFreeSignOut
PROPERTY ImplementsAtomicSession
PROPERTY EveryRequestAnswered
PROPERTY LockEventuallyFree
