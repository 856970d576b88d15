SPECIFICATION Spec
CONSTANTS
  None = None
  Genesis = "g"
  Blocks <- TreeBlocks
  Imported <- Fresh
  Parent <- MCParent
  Number <- MCNumber
  Defect <- MCDefect
  MaxHeight = 3
  Handlers = {h1}
  Engine = "redb"
  Serial = TRUE
  MayCrash = FALSE
  Requests <- TaggedRequests
  FinalityRespected = FALSE
  GenesisPastTTD = TRUE
INVARIANT ChainLinked
PROPERTIES AncestorsCanonical ImplementsChain
