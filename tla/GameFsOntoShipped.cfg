\* A copy or a rename onto one of the client's own files.
SPECIFICATION Spec
CHECK_DEADLOCK FALSE
CONSTANTS
  Files <- TwoFiles
  Folders <- OneFolder
  Pairs <- OtherWay
  Shipped <- OneShipped
  Drops <- NoPaths
  Values = {"a"}
  Clients = {"c"}
  MaxChanges = 3
  MaxCrashes = 0
  MaxDrops = 0
  PageOpen = FALSE
  Browsers <- OneBrowser
PROPERTIES MemSpec
