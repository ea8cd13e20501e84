CONSTANTS
  t1 = t1
  t2 = t2
  t3 = t3
  Thread = {t1, t2, t3}
  Worker = {t1, t2}
  PoolSize = 2
  Declared = 3
  Actual = 2
  Requests <- MCRequests
  Direct <- ShortStream
  Window <- MCWindow
  Chunks = {1}
  Idle = Idle
  Free = Free
SPECIFICATION WFairSpec
INVARIANTS
  TypeOK
  WTypeOK
  CursorsAccounted
  FewWait
  CopiesFaithful
  CopiesWhole
PROPERTIES
  ReadsAsPositioned
  Drains
  AllFinish
