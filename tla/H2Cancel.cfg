SPECIFICATION LinkSpec
CONSTANTS
  StreamCap = 2
  DefaultWindow = 2
  MaxWindow = 6
  LocalWindow <- MCWindow
  ConnWindow <- MCWindow
  MaxFrame = 2
  Plan <- MCPlan
  MaxResponse = 2
  MaxRequest = 2
  Ids = {1, 3, 5}
  Scenarios <- MCCancel
INVARIANT CancelSparesSiblings
CHECK_DEADLOCK FALSE
