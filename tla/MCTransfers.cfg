SPECIFICATION Spec
CONSTANTS
  None = None
  KeepsStep = {TRUE, FALSE}
  Paths = {p1, p2}
  Unlisted = {p2}
  LongPath = LongPath
  Values = {v1, v2}
  Garbage = Garbage
  MaxMemo = 3
  MaxChunk = 2
  Word = 8
SYMMETRY ValueSymmetry
INVARIANTS
  TypeOK
  SignedIsOneTransaction
  SignedUnderItsOwnPath
  SignedWasShown
  TextMemoIsWhole
