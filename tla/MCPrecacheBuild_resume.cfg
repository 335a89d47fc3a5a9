SPECIFICATION Spec
CONSTANTS
  l1 = l1  l2 = l2  m1 = m1  m2 = m2  m3 = m3  t1 = t1  t2 = t2  t3 = t3
  Meshes = {m1, m2, m3}
  Textures = {t1, t2, t3}
  Order <- MCOrder
  MeshesOf <- MCMeshesOf
  TexturesOf <- MCTexturesOf
  Unreadable = {m3, t3}
  PoolThreads = 2
INVARIANTS DoneHasTextures
