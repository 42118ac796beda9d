SPECIFICATION Spec
CONSTANTS
  Window = 3
  MaxCtr = 6
  Threads = {t1, t2}
SYMMETRY ThreadSymmetry
INVARIANTS
  TypeOK
  AtMostOnce
  LostOnlyOutsideWindow
  NonceUnique
  WindowExact
PROPERTY
  PromiseSpec
