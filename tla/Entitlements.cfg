CONSTANTS
  c1 = c1
  c2 = c2
  c3 = c3
  e1 = e1
  why = why
  NoRow = NoRow
  NoWrite = NoWrite
  Commands <- MCCommands
  Evaluators <- MCEvaluators
  Reasons <- MCReasons
  MaxTime = 1
  TrialLength = 1
SPECIFICATION Spec
SYMMETRY CommandSymmetry
INVARIANT AuditMatchesOutcome
INVARIANT RevokeTookEffect
INVARIANT NoFalseDenial
INVARIANT NoFalseGrant
PROPERTY OneTrialEver
PROPERTY RecordsCommitWithChanges
