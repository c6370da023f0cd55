SPECIFICATION Spec
CONSTANTS
  None = None
  KeepsStep = {TRUE, FALSE}
  Keys = {k1, k2}
  Thresholds = {t1, t2}
  Garbage = Garbage
  MaxKeys = 4
  MaxThresholds = 2
INVARIANTS
  TypeOK
  SignedKeysAreDeclared
  SigningDialogIsCurrent
  PagedThroughIsComplete
