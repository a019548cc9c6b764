SPECIFICATION Spec
CONSTANTS
  t1 = t1
  t2 = t2
  x = x
  y = y
  z = z
  a = a
  b = b
  Threads = {t1, t2}
  Idle = Idle
  Sites = {x, y, z}
  base_name <- Modules
  Chars <- CharSet
  Patterns <- PatternSet
  Star = Star
  Query = Query
  Levels = {0, 1}
  FLAGS_vmodule <- Flag
  Unset = Unset
  FLAGS_v = FLAGS_v
  MaxInfos = 3
INVARIANTS
  TypeOK
  CachedOnce
  PatternsControl
SYMMETRY ThreadSymmetry
