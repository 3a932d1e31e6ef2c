SPECIFICATION MembershipSpec
CONSTANTS
  MaxUser = 2
  Founder = 1
  MaxMutations = 3
INVARIANT OwnerRemains
CHECK_DEADLOCK FALSE
