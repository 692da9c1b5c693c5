SPECIFICATION FairSpec
CONSTANTS
  Payloads = {1, 2, 3}
  Reasons = {"barrier"}
  Graphs <- StreamGraph
  DowngradeChoices = {TRUE}
  HelperMayRefuse = TRUE
  MaxPublishes = 1
  MaxExits = 0
PROPERTIES MotdFollowsGraph
