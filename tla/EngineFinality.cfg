SPECIFICATION Spec
CONSTANTS
  None = None
  Genesis = "g"
  Blocks <- TreeBlocks
  Imported <- TreeBlocks
  Parent <- MCParent
  Number <- MCNumber
  Defect <- MCDefect
  MaxHeight = 3
  Handlers = {h1}
  Engine = "libmdbx"
  Serial = TRUE
  MayCrash = TRUE
  Requests <- ConnectedRequests
  FinalityRespected = TRUE
  GenesisPastTTD = TRUE
PROPERTY FinalizedNeverReorged
