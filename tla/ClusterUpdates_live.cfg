CONSTANTS
  Clusters = {a, b}
  Versions = {1, 2, 3, 4}
  Updates <- Automatic
  Limit = 1
  MaxWrites = 1
SPECIFICATION BoundedSpec
INVARIANTS TypeOK NodesNotAhead
PROPERTIES NeverBack UpdatesComplete
CHECK_DEADLOCK FALSE
