SPECIFICATION Spec
CONSTANTS
  MaxRequests = 3
  MaxItems = 3
  Sizes = {0, 3}
  Concurrency = 2
INVARIANTS
  CallsAreBounded
  NothingIsLeftBehind
  DegradationIsLocal
PROPERTIES
  ItemsAreMapped
