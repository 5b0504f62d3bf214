\* Operations of up to four calls, every context and configuration.
SPECIFICATION CallsSpec
CONSTANTS
  op = op
  alice = alice
  bob = bob
  Nobody = Nobody
  Ops <- OneOp
  Users <- TwoUsers
  MaxCalls = 4
INVARIANTS
  CallerIdentityWhenRequired
  OneTokenPerValidation
CHECK_DEADLOCK FALSE
