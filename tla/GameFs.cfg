\* Changes from one console while another reads, in a browser that has OPFS with
\* or without `move`, or none.
SPECIFICATION Spec
CHECK_DEADLOCK FALSE
CONSTANTS
  Files <- TwoFiles
  Folders <- TwoFolders
  Pairs <- OneWay
  Shipped <- OneShipped
  Drops <- NoPaths
  Values = {"a"}
  Clients = {"c"}
  MaxChanges = 3
  MaxCrashes = 0
  MaxDrops = 0
  PageOpen = FALSE
  Browsers <- AnyBrowser
INVARIANTS TreeMatchesDisk ReloadIsAPast
PROPERTIES MemSpec
