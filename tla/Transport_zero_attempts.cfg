SPECIFICATION Spec
CONSTANTS
  Calls = {c1}
  t1 = t1
  t2 = t2
  Tx = {t1, t2}
  EmptyBody = empty
  Lists <- MCLists
  Budgets <- MCBudgetZero
  MaxLen = 2
INVARIANT ZeroAttemptsDoNotVerify
CHECK_DEADLOCK FALSE
