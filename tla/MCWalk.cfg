CONSTANTS
  r = r
  a = a
  b = b
  d = d
  f = f
  x = x
  y = y
  dot = dot
  Node = {r, a, b, f}
  Root = r
  Name = {x, y, dot}
  Dots = {dot}
  Torn = Torn
  Volumes <- MCVolumes
  DepthCap = 1
SPECIFICATION FairSpec
INVARIANTS
  TypeOK
  PathsFaithful
  ListedOnce
  Complete
  TreeComplete
  Loud
PROPERTY
  Terminates
