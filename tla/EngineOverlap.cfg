SPECIFICATION Spec
CONSTANTS
  None = None
  Genesis = "g"
  Blocks <- FaultyBlocks
  Imported <- OneStored
  Parent <- MCParent
  Number <- MCNumber
  Defect <- MCDefect
  MaxHeight = 2
  Handlers = {h1, h2}
  Engine = "libmdbx"
  Serial = FALSE
  MayCrash = TRUE
  Requests <- HeadRequests
  FinalityRespected = FALSE
  GenesisPastTTD = TRUE
SYMMETRY HandlerSymmetry
INVARIANTS StoredIsExecuted CanonicalStored VerdictsSound
