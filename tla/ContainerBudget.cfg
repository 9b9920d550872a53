CONSTANTS
  Tasks = {t1, t2}
  Images = {i1, i2}
  Prepull = {i2}
  Budget = 1
  MaxDangling = 1
  MaxRestarts = 1
SPECIFICATION Spec
CHECK_DEADLOCK FALSE
INVARIANTS NothingIsLeft CleanRunsAreDone BudgetIsKept
