CONSTANTS
  s1 = s1
  s2 = s2
  s3 = s3
  f1 = f1
  v1 = v1
  e1 = e1
  e2 = e2
  c1 = c1
  a1 = a1
  a2 = a2
  t1 = t1
  Source = {s1, s2, s3}
  Broken = Broken
  Unnamed = Unnamed
  Filesystems <- MCFilesystems
  VolumeSystems <- MCVolumeSystems
  EncryptionLayers <- MCEncryptionLayers
  Containers <- MCContainers
  Archives <- MCArchives
  Trees <- MCTrees
  Calls <- BombCalls
  MaxDepth = 2
SPECIFICATION Spec
INVARIANT
  BombIsNone
