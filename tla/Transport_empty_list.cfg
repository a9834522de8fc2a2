SPECIFICATION Spec
CONSTANTS
  Calls = {c1}
  t1 = t1
  t2 = t2
  Tx = {t1, t2}
  EmptyBody = empty
  Lists <- MCListsOrEmpty
  Budgets <- MCBudgets
  MaxLen = 2
INVARIANT PostsOnlyListed
CHECK_DEADLOCK FALSE
