CONSTANTS
  Machines = {a, b, c}
  CidrRanges <- Networks
  Byte = 4
  Failures = {"restart", "conflict", "refused", "unanswered", "timeout"}
  MaxFaults = 1
SPECIFICATION FairSpec
INVARIANTS TypeOK UniqueWhenSure
PROPERTIES IPsKept NobodyForgotten
CHECK_DEADLOCK FALSE
