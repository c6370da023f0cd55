SPECIFICATION Spec
CONSTANTS
  None = None
  KeepsStep = {TRUE, FALSE}
  Paths = {p1, p2}
  Values = {v1, v2}
  Garbage = Garbage
  MaxUrl = 2
  MaxChunk = 2
  MaxItems = 7

INVARIANT SignsNoMixedTransaction
