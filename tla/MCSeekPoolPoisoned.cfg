CONSTANTS
  t1 = t1
  t2 = t2
  Thread = {t1, t2}
  PoolSize = 2
  Declared = 2
  Actual = 2
  Requests <- TwoWindows
  Idle = Idle
  Free = Free
SPECIFICATION Spec
PROPERTY
  BlocksOnlyWhenBusy
