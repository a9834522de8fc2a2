SPECIFICATION Spec
CONSTANTS
  Calls = {c1, c2}
  t1 = t1
  t2 = t2
  Tx = {t1, t2}
  EmptyBody = empty
  Lists <- MCLists
  Budgets <- MCBudgets
  MaxLen = 2
SYMMETRY CallSymmetry
INVARIANTS
  TypeOK
  SubmitAfterCommit
  ResolvedMeansAllCommitted
  RetryBudget
  VerdictNamesLastCheck
  NoCommitMissed
  CallInv
PROPERTY ImplementsOrderedSubmission
CHECK_DEADLOCK FALSE
