SPECIFICATION Spec
VIEW LiveView
CONSTANTS
  None = None
  KeepsStep = {TRUE, FALSE}
  MaxCredentials = 2
  MaxKeys = 2
  MaxList = 2
  MaxProof = 2
  Piece = 1
  MaxItems = 21
INVARIANTS
  TypeOK
  SignedCredentialsAreWhole
  SignedIsOneTransaction
  DeploymentIsReviewed
  UpdateIsReviewed
PROPERTY
  SignsWhatIsReviewed
