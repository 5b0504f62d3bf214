\* What config.ts says of requireCallerAccessToken.
SPECIFICATION CallsSpec
CONSTANTS
  op = op
  alice = alice
  bob = bob
  Nobody = Nobody
  Ops <- OneOp
  Users <- TwoUsers
  MaxCalls = 4
INVARIANTS
  AllCallsUseCallerToken
CHECK_DEADLOCK FALSE
