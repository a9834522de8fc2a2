SPECIFICATION FairSpec
CONSTANTS
  Calls = {c1}
  t1 = t1
  t2 = t2
  Tx = {t1, t2}
  EmptyBody = empty
  Lists <- MCLists
  Budgets <- MCBudgets
  MaxLen = 3
PROPERTY EveryCallSettles
CHECK_DEADLOCK FALSE
