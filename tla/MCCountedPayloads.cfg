SPECIFICATION Spec
CONSTANTS
  None = None
  KeepsStep = {TRUE, FALSE}
  MaxData = 4
  MaxProof = 4
  MaxChunk = 2
  Word16 = 6
  Word32 = 7
  MaxItems = 9
INVARIANTS
  TypeOK
  SignedIsOneTransaction
  DataIsWholeAndViewed
  ProofIsCounted
