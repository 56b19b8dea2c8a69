\* Changes by scripts, a drop onto a file of theirs and a reload, around the page
\* asking for the tree.
SPECIFICATION PanelSpec
CHECK_DEADLOCK FALSE
CONSTANTS
  Files <- TwoFiles
  Folders <- OneFolder
  Pairs <- OneWay
  Shipped <- NoPaths
  Drops <- TwoDrops
  Values = {"a"}
  Clients = {}
  MaxChanges = 2
  MaxCrashes = 1
  MaxDrops = 1
  PageOpen = TRUE
  Browsers <- TwoBrowsers
  MaxLoads = 2
INVARIANTS PanelFollowsTree ReloadIsAPast
