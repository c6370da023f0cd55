SPECIFICATION Spec
CONSTANTS
  None = None
  KeepsStep = {FALSE}
  MaxChunk = 2
  Word = 11
  MaxItems = 15
  MaxKeys = 2
  AuthorizationEnd <- MCAuthorizationEnd
  MaxStructure = 2
  MaxBatch = 2
  KeyIndices = {1, 2}
  MaxPayload = 10
  MaxText = 2
  MaxTexts = 4
  MaxParams = 6
  Buffer = 3
VIEW View
INVARIANTS
  TypeOK
  SignedIsOneUpdate
  AnnouncedIsWhole
  PayloadIsCounted
  ShownAsHashed
