\* An order of up to four items, three of them on the listed page, two runners.
SPECIFICATION Spec
CONSTANTS
  ItemLimit = 3
  MaxCreated = 4
  Concurrency = 2
  Caller = Caller
  Other = Other
  None = None
  Default = Default
INVARIANTS
  PlacedMeansOrderedOnce
  ExplicitIsNeverGuessed
  ItemsFollowTheRequest
  CleanSuccessIsConsistent
