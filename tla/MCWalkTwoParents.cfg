CONSTANTS
  r = r
  a = a
  b = b
  d = d
  f = f
  x = x
  y = y
  dot = dot
  Node = {r, a, b, d, f}
  Root = r
  Name = {x, y, dot}
  Dots = {dot}
  Torn = Torn
  Volumes <- TwoParents
  DepthCap = 2
SPECIFICATION Spec
INVARIANT
  EveryNodeWithinCap
