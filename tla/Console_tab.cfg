SPECIFICATION ConsoleSpec
CONSTANTS
  Listed <- MCListed
  OwnerOf <- MCOwnerOf
  Active = {"res1"}
  Offset = 1
  Horizon = 2
  MaxBatches = 2
  MaxSubs <- MCMaxSubs
  MaxLost = 1
  Forms <- MCForms
  Changed <- MCChanged
  Picked <- MCPicked
  Pages = {"list", "applications", "agents", "keys"}
  RecNames = {"n1", "n2"}
  MaxOps = 2
  MaxReqs = 2
  MaxLoads = 2
  MaxOthers = 1
INVARIANTS
  DialogIsCurrent
  WhatIsStored
  PagesKeepUp
PROPERTIES
  ClosesOnCancelOrSave
