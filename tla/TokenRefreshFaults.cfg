CONSTANTS
  r1 = r1
  r2 = r2
  l1 = l1
  Requests <- MCRequests
  Logouts <- MCLogouts
  Free = Free
  Orphan = Orphan
  Faults = {"read", "write", "lock", "ttl", "timeout", "crash"}
  MaxTokens = 3
SPECIFICATION Spec
SYMMETRY RequestSymmetry
PROPERTY NoResurrection
PROPERTY StoredTokensMoveForward
PROPERTY LockNeverStolen
