\* Up to five items, three runners, every combination of failures.
SPECIFICATION FairSpec
CONSTANTS
  MaxItems = 5
  Concurrency = 3
INVARIANT
  FailureStopsOneRunner
PROPERTIES
  SettlesAndDrains
  ImplementsMap
