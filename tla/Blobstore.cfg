SPECIFICATION Spec
CONSTANTS
  NPages = 4
  NClusters = 2
  ExtentsPerEp = 1
  Opts <- TwoKinds
  MaxChanges = 4
  MaxCrashes = 1
  NoPage = NoPage

  
  
  
  
PROPERTIES
  ImplementsDurableBlobs
CHECK_DEADLOCK FALSE
