SPECIFICATION FairSpec
CONSTANTS
  None = None
  KeepsStep = {FALSE}
  PacketPairs = 2
  MaxCount = 5
  Wrap = 5
  MaxMemo = 2
  MaxChunk = 2
  Word = 5
INVARIANTS
  TypeOK
  SignedIsWholeSchedule
  PairsAreReadInPlace
  ScheduleInv
PROPERTY
  ScheduleEnds
  CommandsAreAnswered
  SignsWhatIsReviewed
