SPECIFICATION FairSpec
CONSTANTS
  None = None
  Genesis = "g"
  Blocks <- ForkBlocks
  Imported <- ForkBlocks
  Parent <- MCParent
  Number <- MCNumber
  Defect <- MCDefect
  MaxHeight = 2
  Handlers = {h1, h2}
  Engine = "redb"
  Serial = FALSE
  MayCrash = FALSE
  Requests <- HeadRequests
  FinalityRespected = FALSE
  GenesisPastTTD = FALSE
PROPERTY CallsAnswered
