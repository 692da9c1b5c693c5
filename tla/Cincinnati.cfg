SPECIFICATION FairSpec
CONSTANTS
  Payloads = {1, 2, 3}
  Reasons = {"barrier"}
  Graphs <- StreamGraph
  DowngradeChoices = {TRUE, FALSE}
  HelperMayRefuse = FALSE
  MaxPublishes = 1
  MaxExits = 1
INVARIANTS TypeOK NeverReturns RecordIsShown
PROPERTIES CheckIsRight MotdFollowsGraph
